---- MODULE Spec2Model ----
(***************************************************************************)
(* A model of the CloudWatch toolkit's three Slack lambdas:                *)
(*   alarm-slack-reminders    (scheduled scan for long-running alarms)     *)
(*   alarm-slack-report       (scheduled 26-hour report)                   *)
(*   alarm-slack-notifications (blocks() of one alarm state change)        *)
(*                                                                         *)
(* Strings are sequences of one-character strings, so that includes(),     *)
(* replace(), substring() and length are computed and not assumed.  The    *)
(* right-pointing double angle quotation mark and the backquote are        *)
(* written "raquo" and "backtick" (each one element, one character).       *)
(* Times are integer milliseconds since the epoch, as returned by          *)
(* +new Date() and Date.parse().                                           *)
(***************************************************************************)
EXTENDS Integers, Sequences, FiniteSets, TLC

VARIABLES
    fn,         \* which lambda this invocation runs
    env,        \* process.env: SEARCH_ACCOUNTS and SEARCH_REGIONS, already split
    world,      \* the external services: STS trust, CloudWatch content, paging
    now,        \* the clock, read by new Date()
    pc,         \* position of the handler
    ai,         \* index of the account loop (1-based)
    ri,         \* index of the region loop (1-based)
    cloudwatch, \* the CloudWatchClient of the current pair, or Undefined
    nextToken,  \* argument of the pending describeAllAlarms call
    frames,     \* the `results` of each describeAllAlarms call still on the stack
    data,       \* what describeAllAlarms returned for the current pair
    alarms,     \* reminders: the accumulator {CompositeAlarms, MetricAlarms}
    reports,    \* report: the accumulator of {Alarm, Count}
    calls,      \* every request sent to STS and CloudWatch, in order
    outbox,     \* every PutEvents entry sent to EventBridge
    event,      \* notifications: the alarm state change event
    blox,       \* notifications: the blocks built so far
    desc,       \* notifications: the DescribeAlarms response
    tagList,    \* notifications: the ListTagsForResource response
    history,    \* notifications: the state updates read through the paginator
    lines,      \* notifications: the detail lines
    args,       \* a function called on its own: which, and its arguments
    result      \* what that function returned

vars == <<fn, env, world, now, pc, ai, ri, cloudwatch, nextToken, frames, data,
          alarms, reports, calls, outbox, event, blox, desc, tagList, history,
          lines, args, result>>

----------------------------------------------------------------------------
(* String literals of the source *)

S_ASIn ==
    <<"A", "S", ":", "I", "n">>
S_ASOut ==
    <<"A", "S", ":", "O", "u", "t">>
S_TargetTracking ==
    <<"T", "a", "r", "g", "e", "t", "T", "r", "a", "c", "k", "i", "n", "g">>
S_ScaleInAlarm ==
    <<"S", "c", "a", "l", "e", "I", "n", "A", "l", "a", "r", "m">>
S_ScaleOutAlarm ==
    <<"S", "c", "a", "l", "e", "O", "u", "t", "A", "l", "a", "r", "m">>
S_PollersLowCpu ==
    <<"P", "r", "o", "d", "u", "c", "t", "i", "o", "n", " ", "P", "o", "l", "l", "e", "r", "s", " ", "L", "o", "w", " ", "C", "P", "U", " ", "U", "s", "a", "g", "e">>
S_gt ==
    <<"&", "g", "t", ";">>
S_lt ==
    <<"&", "l", "t", ";">>
S_FATAL ==
    <<"F", "A", "T", "A", "L">>
S_ERROR ==
    <<"E", "R", "R", "O", "R">>
S_WARN ==
    <<"W", "A", "R", "N">>
S_INFO ==
    <<"I", "N", "F", "O">>
S_CRITICAL ==
    <<"C", "R", "I", "T", "I", "C", "A", "L">>
S_MAJOR ==
    <<"M", "A", "J", "O", "R">>
S_MINOR ==
    <<"M", "I", "N", "O", "R">>
S_annotations ==
    <<"~", "a", "n", "n", "o", "t", "a", "t", "i", "o", "n", "s">>
S_closing ==
    <<")", ")", ")">>
S_Started ==
    <<"*", "S", "t", "a", "r", "t", "e", "d", ":", "*", " ">>
S_ago ==
    <<" ", "a", "g", "o">>
S_seconds ==
    <<"s", "e", "c", "o", "n", "d", "s">>
S_minutes ==
    <<"m", "i", "n", "u", "t", "e", "s">>
S_hours ==
    <<"h", "o", "u", "r", "s">>
S_days ==
    <<"d", "a", "y", "s">>
S_ALARM ==
    <<"A", "L", "A", "R", "M">>
S_OK ==
    <<"O", "K">>
S_INSUFFICIENT_DATA ==
    <<"I", "N", "S", "U", "F", "F", "I", "C", "I", "E", "N", "T", "_", "D", "A", "T", "A">>
S_Virginia ==
    <<"V", "i", "r", "g", "i", "n", "i", "a">>
S_Ohio ==
    <<"O", "h", "i", "o">>
S_useast1 ==
    <<"u", "s", "-", "e", "a", "s", "t", "-", "1">>
S_useast2 ==
    <<"u", "s", "-", "e", "a", "s", "t", "-", "2">>
S_consoleHead ==
    <<"h", "t", "t", "p", "s", ":", "/", "/", "c", "o", "n", "s", "o", "l", "e", ".", "a", "w", "s", ".", "a", "m", "a", "z", "o", "n", ".", "c", "o", "m", "/", "c", "l", "o", "u", "d", "w", "a", "t", "c", "h", "/", "h", "o", "m", "e", "?", "r", "e", "g", "i", "o", "n", "=">>
S_consoleTail ==
    <<"#", "a", "l", "a", "r", "m", "s", "V", "2", ":", "a", "l", "a", "r", "m", "/">>
S_ssoHead ==
    <<"h", "t", "t", "p", "s", ":", "/", "/", "d", "-", "9", "0", "6", "7", "1", "3", "e", "9", "5", "2", ".", "a", "w", "s", "a", "p", "p", "s", ".", "c", "o", "m", "/", "s", "t", "a", "r", "t", "/", "#", "/", "c", "o", "n", "s", "o", "l", "e", "?", "a", "c", "c", "o", "u", "n", "t", "_", "i", "d", "=">>
S_ssoRole ==
    <<"&", "r", "o", "l", "e", "_", "n", "a", "m", "e", "=">>
S_AdministratorAccess ==
    <<"A", "d", "m", "i", "n", "i", "s", "t", "r", "a", "t", "o", "r", "A", "c", "c", "e", "s", "s">>
S_ssoDest ==
    <<"&", "d", "e", "s", "t", "i", "n", "a", "t", "i", "o", "n", "=">>
S_insufficient ==
    <<"D", "e", "t", "a", "i", "l", "s", " ", "n", "o", "t", " ", "i", "m", "p", "l", "e", "m", "e", "n", "t", "e", "d", " ", "f", "o", "r", " ", "backtick", "I", "N", "S", "U", "F", "F", "I", "C", "I", "E", "N", "T", "_", "D", "A", "T", "A", "backtick">>
S_unknownMetric ==
    <<"U", "n", "k", "n", "o", "w", "n", " ", "a", "l", "a", "r", "m", " ", "m", "e", "t", "r", "i", "c", " ", "t", "y", "p", "e", "!">>
S_reminderHeader ==
    <<":", "s", "t", "o", "p", "w", "a", "t", "c", "h", ":", " ", "L", "o", "n", "g", "-", "r", "u", "n", "n", "i", "n", "g", " ", "A", "l", "a", "r", "m", "s">>
S_reportHeader ==
    <<":", "m", "e", "m", "o", ":", " ", "2", "6", "-", "H", "o", "u", "r", " ", "A", "l", "a", "r", "m", " ", "R", "e", "p", "o", "r", "t">>
S_fallbackHead ==
    <<"T", "h", "e", "r", "e", " ", "a", "r", "e", " ", "*">>
S_fallbackTail ==
    <<"*", " ", "l", "o", "n", "g", "-", "r", "u", "n", "n", "i", "n", "g", " ", "a", "l", "a", "r", "m", "s">>
S_tktktk ==
    <<"t", "k", "t", "k", "t", "k">>
S_acct1 ==
    <<"1", "1", "1", "1", "1", "1", "1", "1", "1", "1", "1", "1">>
S_acct2 ==
    <<"2", "2", "2", "2", "2", "2", "2", "2", "2", "2", "2", "2">>
N_WarnLatency ==
    <<"W", "A", "R", "N", " ", "h", "i", "g", "h", " ", "l", "a", "t", "e", "n", "c", "y", " ", "(", "p", "r", "o", "d", ")">>
N_FatalSomething ==
    <<"F", "A", "T", "A", "L", " ", "S", "o", "m", "e", "t", "h", "i", "n", "g">>
N_TargetTracking ==
    <<"m", "y", "a", "p", "p", "-", "T", "a", "r", "g", "e", "t", "T", "r", "a", "c", "k", "i", "n", "g", "-", "a", "b", "c">>
N_ErrorDb ==
    <<"E", "R", "R", "O", "R", " ", "d", "b", " ", "<", "p", "r", "o", "d", ">", " ", "c", "p", "u">>
N_InfoQueue ==
    <<"I", "N", "F", "O", " ", "q", "u", "e", "u", "e", " ", "d", "e", "p", "t", "h">>
N_ASOutGroup ==
    <<"A", "S", ":", "O", "u", "t", " ", "w", "e", "b", " ", "g", "r", "o", "u", "p">>
N_CompositeApi ==
    <<"M", "A", "J", "O", "R", " ", "a", "p", "i", " ", "d", "o", "w", "n">>
N_CriticalAB ==
    <<"C", "R", "I", "T", "I", "C", "A", "L", " ", "a", " ", ">", " ", "b", " ", "(", "u", "s", " ", "e", "a", "s", "t", ")">>
N_MinorDisk ==
    <<"M", "I", "N", "O", "R", " ", "d", "i", "s", "k", " ", "(", "i", "-", "0", "a", "1", ")">>
N_WarningDisk ==
    <<"W", "A", "R", "N", "I", "N", "G", " ", "d", "i", "s", "k", " ", "f", "u", "l", "l">>
N_LowerWarn ==
    <<"w", "a", "r", "n", " ", "l", "o", "w", "e", "r", "c", "a", "s", "e">>

S_AWSLambda ==
    <<"A", "W", "S", "/", "L", "a", "m", "b", "d", "a">>

S_AWSStates ==
    <<"A", "W", "S", "/", "S", "t", "a", "t", "e", "s">>

S_AWSApplicationELB ==
    <<"A", "W", "S", "/", "A", "p", "p", "l", "i", "c", "a", "t", "i", "o", "n", "E", "L", "B">>

S_PRXDovetailRouter ==
    <<"P", "R", "X", "/", "D", "o", "v", "e", "t", "a", "i", "l", "/", "R", "o", "u", "t", "e", "r">>

S_PRXDovetailLegacy ==
    <<"P", "R", "X", "/", "D", "o", "v", "e", "t", "a", "i", "l", "/", "L", "e", "g", "a", "c", "y">>

S_PRXDovetailCounts ==
    <<"P", "R", "X", "/", "D", "o", "v", "e", "t", "a", "i", "l", "/", "C", "o", "u", "n", "t", "s">>

S_PRXDovetailAnalytics ==
    <<"P", "R", "X", "/", "D", "o", "v", "e", "t", "a", "i", "l", "/", "A", "n", "a", "l", "y", "t", "i", "c", "s">>

S_PRXAugury ==
    <<"P", "R", "X", "/", "A", "u", "g", "u", "r", "y">>

S_PRXFeeder ==
    <<"P", "R", "X", "/", "F", "e", "e", "d", "e", "r">>

S_PRXClickhouse ==
    <<"P", "R", "X", "/", "C", "l", "i", "c", "k", "h", "o", "u", "s", "e">>

S_AWSEC2 ==
    <<"A", "W", "S", "/", "E", "C", "2">>

S_FunctionName ==
    <<"F", "u", "n", "c", "t", "i", "o", "n", "N", "a", "m", "e">>

S_LambdaFunctionArn ==
    <<"L", "a", "m", "b", "d", "a", "F", "u", "n", "c", "t", "i", "o", "n", "A", "r", "n">>

S_InstanceId ==
    <<"I", "n", "s", "t", "a", "n", "c", "e", "I", "d">>

S_awsLambdaPrefix ==
    <<"/", "a", "w", "s", "/", "l", "a", "m", "b", "d", "a", "/">>

S_functionSeparator ==
    <<":", "f", "u", "n", "c", "t", "i", "o", "n", ":">>

S_undefined ==
    <<"u", "n", "d", "e", "f", "i", "n", "e", "d">>

S_ingest ==
    <<"i", "n", "g", "e", "s", "t">>

S_instance ==
    <<"i", "-", "0", "a", "1">>

S_ingestArn ==
    <<"a", "r", "n", ":", "a", "w", "s", ":", "l", "a", "m", "b", "d", "a", ":", "u", "s", "-", "e", "a", "s", "t", "-", "2", ":", "1", "1", "1", "1", "1", "1", "1", "1", "1", "1", "1", "1", ":", "f", "u", "n", "c", "t", "i", "o", "n", ":", "i", "n", "g", "e", "s", "t">>

S_ingestLiveArn ==
    <<"a", "r", "n", ":", "a", "w", "s", ":", "l", "a", "m", "b", "d", "a", ":", "u", "s", "-", "e", "a", "s", "t", "-", "2", ":", "1", "1", "1", "1", "1", "1", "1", "1", "1", "1", "1", "1", ":", "f", "u", "n", "c", "t", "i", "o", "n", ":", "i", "n", "g", "e", "s", "t", ":", "l", "i", "v", "e">>

S_ingestLive ==
    <<"i", "n", "g", "e", "s", "t", ":", "l", "i", "v", "e">>

S_teamTag ==
    <<"p", "r", "x", ":", "o", "p", "s", ":", "t", "e", "a", "m">>

S_teamOps ==
    <<"o", "p", "s">>

S_raquo ==
    <<" ", "raquo", " ">>
S_bar ==
    <<" ", "|", " ">>

----------------------------------------------------------------------------
(* JavaScript values and built-ins *)

\* undefined
Undefined == [undefined |-> TRUE]

\* NaN, as the result of a numeric operation
NaN == "NaN"

\* obj.field is present (not undefined)
Has(obj, field) == field \in DOMAIN obj

\* Array.prototype.join on an array of strings
RECURSIVE Join(_, _)
Join(parts, sep) ==
    IF Len(parts) = 0 THEN <<>>
    ELSE IF Len(parts) = 1 THEN parts[1]
    ELSE parts[1] \o sep \o Join(Tail(parts), sep)

\* the concatenation of an array of arrays (push(...more), string building),
\* taken by halves
RECURSIVE Flatten(_)
Flatten(seqs) ==
    IF Len(seqs) = 0 THEN <<>>
    ELSE IF Len(seqs) = 1 THEN seqs[1]
    ELSE LET half == Len(seqs) \div 2
         IN  Flatten(SubSeq(seqs, 1, half)) \o Flatten(SubSeq(seqs, half + 1, Len(seqs)))

\* s starts at position i of str
MatchAt(str, i, s) ==
    /\ i >= 1
    /\ i + Len(s) - 1 <= Len(str)
    /\ \A k \in 1..Len(s) : str[i + k - 1] = s[k]

\* String.prototype.includes
Includes(str, s) == \E i \in 1..(Len(str) + 1) : MatchAt(str, i, s)

\* String.prototype.startsWith
StartsWith(str, s) == MatchAt(str, 1, s)

\* String.prototype.substring(0, n)
Substring0(str, n) == SubSeq(str, 1, IF n < Len(str) THEN n ELSE Len(str))

\* String.prototype.replace(/c/g, s) for a one-character pattern c
ReplaceAllChar(str, c, s) ==
    Flatten([i \in 1..Len(str) |-> IF str[i] = c THEN s ELSE <<str[i]>>])

\* String.prototype.trim for the white space the model's strings hold
RECURSIVE TrimStart(_)
TrimStart(str) ==
    IF Len(str) > 0 /\ str[1] \in {" ", "\n"} THEN TrimStart(Tail(str)) ELSE str

RECURSIVE TrimEnd(_)
TrimEnd(str) ==
    IF Len(str) > 0 /\ str[Len(str)] \in {" ", "\n"}
    THEN TrimEnd(SubSeq(str, 1, Len(str) - 1))
    ELSE str

Trim(str) == TrimEnd(TrimStart(str))

\* the least element of a non-empty set of integers
Min(S) == CHOOSE x \in S : \A y \in S : x <= y

\* Number-to-string conversion of a non-negative integer
RECURSIVE NumberToString(_)
NumberToString(n) ==
    LET digit == <<"0", "1", "2", "3", "4", "5", "6", "7", "8", "9">>
    IN  IF n < 10 THEN <<digit[n + 1]>>
        ELSE NumberToString(n \div 10) \o <<digit[(n % 10) + 1]>>

----------------------------------------------------------------------------
(* Character classes and URI encoding *)

Letters ==
    {"A", "B", "C", "D", "E", "F", "G", "H", "I", "J", "K", "L", "M",
     "N", "O", "P", "Q", "R", "S", "T", "U", "V", "W", "X", "Y", "Z",
     "a", "b", "c", "d", "e", "f", "g", "h", "i", "j", "k", "l", "m",
     "n", "o", "p", "q", "r", "s", "t", "u", "v", "w", "x", "y", "z"}

Digits ==
    {"0", "1", "2", "3", "4", "5", "6", "7", "8", "9"}

\* [A-Za-z0-9_-]
NameSuffixChars == Letters \cup Digits \cup {"_", "-"}

\* [A-Za-z0-9 _-]
NameSuffixCharsWithSpace == NameSuffixChars \cup {" "}

\* the characters encodeURIComponent leaves alone
UriUnreserved == Letters \cup Digits \cup {"-", "_", ".", "!", "~", "*", "'", "(", ")"}

\* the characters encodeURI leaves alone: the unreserved ones, the reserved
\* ones and the number sign
UriKept == UriUnreserved \cup {";", "/", "?", ":", "@", "&", "=", "+", "$", ",", "#"}

\* the percent-escape of one character of the model's strings
PercentEscape(c) ==
    CASE c = " " -> <<"%", "2", "0">>
      [] c = "<" -> <<"%", "3", "C">>
      [] c = ">" -> <<"%", "3", "E">>
      [] c = "|" -> <<"%", "7", "C">>
      [] c = "%" -> <<"%", "2", "5">>
      [] c = "backtick" -> <<"%", "6", "0">>
      [] c = "raquo" -> <<"%", "C", "2", "%", "B", "B">>
      [] c = "\n" -> <<"%", "0", "A">>
      [] c = ":" -> <<"%", "3", "A">>
      [] c = "/" -> <<"%", "2", "F">>
      [] c = "?" -> <<"%", "3", "F">>
      [] c = "=" -> <<"%", "3", "D">>
      [] c = "#" -> <<"%", "2", "3">>
      [] c = "+" -> <<"%", "2", "B">>
      [] c = "$" -> <<"%", "2", "4">>
      [] c = "&" -> <<"%", "2", "6">>
      [] c = ";" -> <<"%", "3", "B">>
      [] c = "@" -> <<"%", "4", "0">>
      [] c = "," -> <<"%", "2", "C">>

\* encodeURI
EncodeURI(str) ==
    Flatten([i \in 1..Len(str) |->
        IF str[i] \in UriKept THEN <<str[i]>> ELSE PercentEscape(str[i])])

\* encodeURIComponent
EncodeURIComponent(str) ==
    Flatten([i \in 1..Len(str) |->
        IF str[i] \in UriUnreserved THEN <<str[i]>> ELSE PercentEscape(str[i])])

----------------------------------------------------------------------------
(* Array.prototype.sort as Node.js 22 (V8) runs it.  The comparator is     *)
(* named by a string; the arrays sorted here are shorter than 64 elements, *)
(* for which V8's TimSort is one run found by CountAndMakeRun followed by  *)
(* one binary insertion sort.                                              *)

\* a JavaScript number as a comparator result, and NaN
Num(n) == [num |-> n]
NaNResult == [nan |-> TRUE]

\* a timestamp string of a state-reason payload, e.g.
\* "2024-05-01T12:00:00.000+0000", written by the instant it denotes
IsoString(ms) == [iso |-> ms]

\* Date.parse of a timestamp string
DateParse(str) == str.iso

\* Date.parse of a Date object: the object is converted to a string, which
\* carries no milliseconds
DateParseDate(ms) == ms - (ms % 1000)

\* a - b on two values: strings that are not numerals convert to NaN
Subtract(a, b) ==
    IF Has(a, "iso") \/ Has(b, "iso") THEN NaNResult ELSE Num(a.num - b.num)

\* a value is truthy: present, and not 0 when it is a number
TruthyNumber(obj, field) == Has(obj, field) /\ obj[field] # 0

\* function sortByDuration(a, b)
sortByDuration(a, b) ==
    IF TruthyNumber(a, "EstimatedDuration") /\ TruthyNumber(b, "EstimatedDuration")
    THEN Num(b.EstimatedDuration - a.EstimatedDuration)
    ELSE Num(-1)

\* (a, b) => b - a, on the timestamps of the evaluated datapoints
timestampDescending(a, b) == Subtract(b, a)

\* the comparator call of the sort: NaN counts as 0
SortCompare(cmp, x, y) ==
    LET v == CASE cmp = "sortByDuration" -> sortByDuration(x, y)
               [] cmp = "timestampDescending" -> timestampDescending(x, y)
    IN  IF Has(v, "nan") THEN 0 ELSE v.num

\* the elements of arr from position low to position high - 1 reversed
\* (positions are 0-based as in the engine; arr is 1-based)
ReverseRange(arr, low, high) ==
    [i \in 1..Len(arr) |->
        IF i - 1 >= low /\ i - 1 < high THEN arr[low + high - (i - 1)] ELSE arr[i]]

\* CountAndMakeRun(0, length): the length of the run that starts the array
CountRun(arr, cmp) ==
    LET n == Len(arr)
        isDescending == SortCompare(cmp, arr[2], arr[1]) < 0
        RECURSIVE Scan(_)
        Scan(idx) ==      \* idx is 0-based; the run holds positions 0..idx-1
            IF idx >= n THEN idx
            ELSE LET order == SortCompare(cmp, arr[idx + 1], arr[idx])
                 IN  IF isDescending
                     THEN (IF order >= 0 THEN idx ELSE Scan(idx + 1))
                     ELSE (IF order < 0 THEN idx ELSE Scan(idx + 1))
    IN  [length |-> IF n = 1 THEN 1 ELSE Scan(2),
         descending |-> n > 1 /\ isDescending]

\* BinaryInsertionSort(0, start, length)
BinaryInsertionSort(arr0, start0, cmp) ==
    LET n == Len(arr0)
        RECURSIVE Search(_, _, _, _)
        Search(arr, pivot, left, right) ==
            IF left < right
            THEN LET mid == left + ((right - left) \div 2)
                 IN  IF SortCompare(cmp, pivot, arr[mid + 1]) < 0
                     THEN Search(arr, pivot, left, mid)
                     ELSE Search(arr, pivot, mid + 1, right)
            ELSE left
        Insert(arr, start) ==
            LET pivot == arr[start + 1]
                left == Search(arr, pivot, 0, start)
            IN  [i \in 1..n |->
                    IF i - 1 < left \/ i - 1 > start THEN arr[i]
                    ELSE IF i - 1 = left THEN pivot
                    ELSE arr[i - 1]]
        RECURSIVE Loop(_, _)
        Loop(arr, start) ==
            IF start < n THEN Loop(Insert(arr, start), start + 1) ELSE arr
    IN  Loop(arr0, IF start0 = 0 THEN 1 ELSE start0)

\* Array.prototype.sort(comparefn)
ArraySort(arr, cmp) ==
    IF Len(arr) < 2 THEN arr
    ELSE LET run == CountRun(arr, cmp)
             made == IF run.descending THEN ReverseRange(arr, 0, run.length) ELSE arr
         IN  IF run.length < Len(arr)
             THEN BinaryInsertionSort(made, run.length, cmp)
             ELSE made

----------------------------------------------------------------------------
(* Helpers of the lambdas *)

\* regions(code): the display label of a region code (regions.mjs)
regions(code) ==
    IF code = S_useast1 THEN S_Virginia
    ELSE IF code = S_useast2 THEN S_Ohio
    ELSE code

\* str.replace(/\([...]+\)$/, ""): a parenthesised suffix of one or more
\* characters of `class` at the end of the string is removed
StripSuffix(str, class) ==
    IF Len(str) >= 3 /\ str[Len(str)] = ")"
          /\ \E i \in 1..(Len(str) - 2) :
                /\ str[i] = "("
                /\ \A k \in (i + 1)..(Len(str) - 1) : str[k] \in class
    THEN LET open == Min({i \in 1..(Len(str) - 2) :
                            /\ str[i] = "("
                            /\ \A k \in (i + 1)..(Len(str) - 1) : str[k] \in class})
         IN  SubSeq(str, 1, open - 1)
    ELSE str

\* the alternatives of /^(FATAL|ERROR|WARN|INFO|CRITICAL|MAJOR|MINOR)/, in order
SeverityPrefixes ==
    <<S_FATAL, S_ERROR, S_WARN, S_INFO, S_CRITICAL, S_MAJOR, S_MINOR>>

\* str.replace(/^(FATAL|ERROR|WARN|INFO|CRITICAL|MAJOR|MINOR)/, "")
StripSeverity(str) ==
    IF \E k \in 1..Len(SeverityPrefixes) : StartsWith(str, SeverityPrefixes[k])
    THEN LET first == Min({k \in 1..Len(SeverityPrefixes) :
                             StartsWith(str, SeverityPrefixes[k])})
         IN  SubSeq(str, Len(SeverityPrefixes[first]) + 1, Len(str))
    ELSE str

\* the replace chain shared by the three cleanName functions
CleanWith(alarmName, class) ==
    Trim(StripSeverity(StripSuffix(
        ReplaceAllChar(ReplaceAllChar(alarmName, ">", S_gt), "<", S_lt), class)))

\* alarm-slack-reminders: function cleanName(alarmName)
cleanNameReminders(alarmName) == CleanWith(alarmName, NameSuffixChars)

\* alarm-slack-report: function cleanName(alarmName)
cleanNameReport(alarmName) == CleanWith(alarmName, NameSuffixCharsWithSpace)

\* cleanNameNotifications that leaves the parenthesised suffix in place
cleanNameNotifications_KeepSuffix(alarmName) ==
    Trim(StripSeverity(ReplaceAllChar(ReplaceAllChar(alarmName, ">", S_gt), "<", S_lt)))

\* alarm-slack-notifications: function cleanName(alarmName)
cleanNameNotifications(alarmName) ==
    CleanWith(alarmName, NameSuffixCharsWithSpace)

\* an ARN with its fields between colons as elements; the alarm name, which
\* may itself hold colons, comes last as one element
AlarmArn(account, region, name) ==
    <<"arn", "aws", "cloudwatch", region, account, "alarm", name>>

\* alarmDetail.AlarmArn.split(":")[k], k counted from 0, for k < 5
ArnField(arn, k) == arn[k + 1]

\* alarm-slack-reminders: function title(alarmDetail)
titleReminders(alarmDetail) ==
    alarmDetail.StateValue \o S_bar \o regions(ArnField(alarmDetail.AlarmArn, 3))
        \o S_raquo \o cleanNameReminders(alarmDetail.AlarmName)

\* alarm-slack-report: function title(alarmDetail)
titleReport(alarmDetail) ==
    regions(ArnField(alarmDetail.AlarmArn, 3))
        \o S_raquo \o cleanNameReport(alarmDetail.AlarmName)

\* the substrings filterByName looks for
ExcludedSubstrings ==
    {S_ASIn, S_ASOut, S_TargetTracking, S_ScaleInAlarm, S_ScaleOutAlarm,
     S_PollersLowCpu}

\* function filterByName(alarm), the same in reminders and report
filterByName(alarm) ==
    ~ \E s \in ExcludedSubstrings : Includes(alarm.AlarmName, s)

\* Array.prototype.filter with filterByName
RECURSIVE FilterByName(_)
FilterByName(arr) ==
    IF Len(arr) = 0 THEN <<>>
    ELSE (IF filterByName(arr[1]) THEN <<arr[1]>> ELSE <<>>)
            \o FilterByName(Tail(arr))

\* JSON.parse of a state-reason payload
JSONParse(str) == str.json

\* reasonData?.startDate || reasonData?.evaluatedDatapoints?.length
HasStart(reasonData) ==
    \/ Has(reasonData, "startDate")
    \/ (Has(reasonData, "evaluatedDatapoints")
            /\ Len(reasonData.evaluatedDatapoints) > 0)

\* reasonData.startDate ||
\*   reasonData.evaluatedDatapoints.map((d) => d.timestamp).sort((a, b) => b - a)[0]
startedAt(reasonData) ==
    IF Has(reasonData, "startDate") THEN reasonData.startDate
    ELSE ArraySort([i \in 1..Len(reasonData.evaluatedDatapoints) |->
                        reasonData.evaluatedDatapoints[i].timestamp],
                   "timestampDescending")[1]

\* the milliseconds in a second (dif / 1000)
MsPerSecond == 1000

\* function injectDuration(alarm).  EstimatedDuration is held in
\* milliseconds (dif) where the source holds dif / 1000, a fraction of a
\* second included; every comparison with it is scaled alike
injectDuration(alarm, clock) ==
    IF Has(alarm, "StateReasonData") /\ HasStart(JSONParse(alarm.StateReasonData))
    THEN LET reasonData == JSONParse(alarm.StateReasonData)
             startTime == DateParse(startedAt(reasonData))
             dif == clock - startTime
         IN  [f \in DOMAIN alarm \cup {"EstimatedDuration"} |->
                 IF f = "EstimatedDuration" THEN dif ELSE alarm[f]]
    ELSE alarm

\* 3600, "1 hour", in seconds
DurationThreshold == 3600

\* function filterByDuration(alarm)
filterByDuration(alarm) ==
    IF TruthyNumber(alarm, "EstimatedDuration")
    THEN alarm.EstimatedDuration > DurationThreshold * MsPerSecond
    ELSE TRUE

\* Array.prototype.filter with filterByDuration
RECURSIVE FilterByDuration(_)
FilterByDuration(arr) ==
    IF Len(arr) = 0 THEN <<>>
    ELSE (IF filterByDuration(arr[1]) THEN <<arr[1]>> ELSE <<>>)
            \o FilterByDuration(Tail(arr))

\* data.MetricAlarms.filter(filterByName).map(injectDuration)
\*     .filter(filterByDuration).sort(sortByDuration)
RetainedMetricAlarms(metricAlarms, clock) ==
    LET named == FilterByName(metricAlarms)
        injected == [i \in 1..Len(named) |-> injectDuration(named[i], clock)]
    IN  ArraySort(FilterByDuration(injected), "sortByDuration")

----------------------------------------------------------------------------
(* Time *)

MsPerMinute == 60 * MsPerSecond
MsPerHour == 60 * MsPerMinute
MsPerDay == 24 * MsPerHour

\* const d = new Date(); d.setUTCHours(hours): the hour field of the UTC day
\* of d is set, the minutes, seconds and milliseconds are kept
SetUTCHours(d, hours) == (d - (d % MsPerDay)) + hours * MsPerHour + (d % MsPerHour)

\* const hoursAgo26 = new Date(); hoursAgo26.setUTCHours(-26)
hoursAgo26(clock) == SetUTCHours(clock, -26)

\* Math.round(a / b) for b > 0: to the nearest integer, halves upwards
RoundDiv(a, b) ==
    LET q == a \div b
        r == a % b
    IN  IF 2 * r >= b THEN q + 1 ELSE q

\* a number held in thousandths converted to a string, as JavaScript writes
\* the quotient: sign, integer part, and the decimals without trailing zeros
ThousandthsToString(n) ==
    LET abs == IF n < 0 THEN 0 - n ELSE n
        frac == abs % 1000
        d1 == frac \div 100
        d2 == (frac \div 10) % 10
        d3 == frac % 10
        decimals == IF frac = 0 THEN <<>>
                    ELSE IF d3 # 0
                    THEN <<".">> \o NumberToString(d1) \o NumberToString(d2)
                                 \o NumberToString(d3)
                    ELSE IF d2 # 0
                    THEN <<".">> \o NumberToString(d1) \o NumberToString(d2)
                    ELSE <<".">> \o NumberToString(d1)
    IN  (IF n < 0 THEN <<"-">> ELSE <<>>)
            \o NumberToString(abs \div 1000) \o decimals

\* started with thresholds the elapsed time has to exceed
started_StrictThresholds(reasonData, clock) ==
    IF HasStart(reasonData)
    THEN LET dif == clock - DateParse(startedAt(reasonData))
             duration ==
                 IF dif > 86400 * MsPerSecond
                 THEN NumberToString(RoundDiv(dif, 86400 * MsPerSecond))
                 ELSE IF dif > 3600 * MsPerSecond
                 THEN NumberToString(RoundDiv(dif, 3600 * MsPerSecond))
                 ELSE IF dif > 60 * MsPerSecond
                 THEN NumberToString(RoundDiv(dif, 60 * MsPerSecond))
                 ELSE ThousandthsToString(dif)
             durationUnit ==
                 IF dif > 86400 * MsPerSecond THEN S_days
                 ELSE IF dif > 3600 * MsPerSecond THEN S_hours
                 ELSE IF dif > 60 * MsPerSecond THEN S_minutes
                 ELSE S_seconds
         IN  S_Started \o duration \o <<" ">> \o durationUnit \o S_ago
    ELSE <<>>

\* function started(reasonData), alarm-slack-reminders
started(reasonData, clock) ==
    IF HasStart(reasonData)
    THEN LET dif == clock - DateParse(startedAt(reasonData))
             duration ==
                 IF dif >= 86400 * MsPerSecond
                 THEN NumberToString(RoundDiv(dif, 86400 * MsPerSecond))
                 ELSE IF dif >= 3600 * MsPerSecond
                 THEN NumberToString(RoundDiv(dif, 3600 * MsPerSecond))
                 ELSE IF dif >= 60 * MsPerSecond
                 THEN NumberToString(RoundDiv(dif, 60 * MsPerSecond))
                 ELSE ThousandthsToString(dif)
             durationUnit ==
                 IF dif >= 86400 * MsPerSecond THEN S_days
                 ELSE IF dif >= 3600 * MsPerSecond THEN S_hours
                 ELSE IF dif >= 60 * MsPerSecond THEN S_minutes
                 ELSE S_seconds
         IN  S_Started \o duration \o <<" ">> \o durationUnit \o S_ago
    ELSE <<>>

\* export function alarmConsole(alarmDetail)
alarmConsole(alarmDetail) ==
    LET name == alarmDetail.AlarmName
        region == ArnField(alarmDetail.AlarmArn, 3)
        encoded == ReplaceAllChar(EncodeURI(ReplaceAllChar(name, " ", <<"+">>)),
                                  "%", <<"$">>)
    IN  S_consoleHead \o region \o S_consoleTail \o encoded

\* export function ssoDeepLink(accountId, url)
ssoDeepLink(accountId, url) ==
    S_ssoHead \o accountId \o S_ssoRole \o S_AdministratorAccess
        \o S_ssoDest \o EncodeURIComponent(url)

----------------------------------------------------------------------------
(* The alarm backend (CloudWatch) and the identity provider (STS), as the  *)
(* lambdas see them                                                        *)

\* what the backend keeps for one (account, region): its alarms laid out in
\* the pages it serves them in, and the state-update history of the pair
Store(pages, updates) == [pages |-> pages, history |-> updates]

\* the alarms of arr in state params.StateValue, or all without the filter
RECURSIVE InState(_, _)
InState(arr, params) ==
    IF Len(arr) = 0 THEN <<>>
    ELSE (IF Has(params, "StateValue") => arr[1].StateValue = params.StateValue
          THEN <<arr[1]>> ELSE <<>>) \o InState(Tail(arr), params)

\* DescribeAlarms: the page the continuation token names (the first without
\* one), a missing list left out of the response, NextToken unless it is the
\* last page
BackendDescribeAlarms(store, params) ==
    LET k == IF Has(params, "NextToken") THEN params.NextToken.token ELSE 1
        page == store.pages[k]
        fields == (DOMAIN page)
                    \cup (IF k < Len(store.pages) THEN {"NextToken"} ELSE {})
    IN  [f \in fields |->
            IF f = "NextToken" THEN [token |-> k + 1]
            ELSE InState(page[f], params)]

\* DescribeAlarmHistory through the paginator, its pages flattened: the
\* state updates in [StartDate, EndDate] of the alarm named, of every alarm
\* of the pair when no name is given
RECURSIVE BackendAlarmHistory(_, _)
BackendAlarmHistory(updates, params) ==
    IF Len(updates) = 0 THEN <<>>
    ELSE (IF /\ Has(params, "AlarmName") => updates[1].AlarmName = params.AlarmName
             /\ updates[1].Timestamp >= params.StartDate
             /\ updates[1].Timestamp <= params.EndDate
          THEN <<updates[1]>> ELSE <<>>)
            \o BackendAlarmHistory(Tail(updates), params)

----------------------------------------------------------------------------
(* Alarms and worlds the lambdas are run against *)

\* a metric or composite alarm as DescribeAlarms returns it, without a
\* state-reason payload
Alarm(account, region, name, state, transitioned) ==
    [AlarmName |-> name,
     AlarmArn |-> AlarmArn(account, region, name),
     StateValue |-> state,
     StateTransitionedTimestamp |-> transitioned]

\* the same alarm with StateReasonData, a JSON string, written by its content
WithReason(alarm, payload) ==
    [f \in DOMAIN alarm \cup {"StateReasonData"} |->
        IF f = "StateReasonData" THEN [json |-> payload] ELSE alarm[f]]

\* {"startDate": "..."}
StartDatePayload(ms) == [startDate |-> IsoString(ms)]

\* {"evaluatedDatapoints": [{"timestamp": "..."}, ...]}, in the order given
DatapointsPayload(times) ==
    [evaluatedDatapoints |-> [i \in 1..Len(times) |-> [timestamp |-> IsoString(times[i])]]]

\* a state-update history item
HistoryItem(name, timestamp, summary) ==
    [AlarmName |-> name, Timestamp |-> timestamp,
     HistoryItemType |-> "StateUpdate", HistorySummary |-> summary]

S_toAlarm ==
    <<"A", "l", "a", "r", "m", " ", "u", "p", "d", "a", "t", "e", "d", " ", "f", "r", "o", "m", " ", "O", "K", " ", "t", "o", " ", "A", "L", "A", "R", "M">>

S_toOk ==
    <<"A", "l", "a", "r", "m", " ", "u", "p", "d", "a", "t", "e", "d", " ", "f", "r", "o", "m", " ", "A", "L", "A", "R", "M", " ", "t", "o", " ", "O", "K">>

\* the needle of i.HistorySummary.includes("to ALARM")
S_toAlarmNeedle ==
    <<"t", "o", " ", "A", "L", "A", "R", "M">>

\* when the scheduled invocations of the model run: 13:10 UTC, the time of
\* the report's schedule, on the fourth day of the epoch
InvocationTime == 3 * MsPerDay + 13 * MsPerHour + 10 * MsPerMinute

\* the number of scenarios ScanStore tells apart
ScanScenarios == 1..5

\* the store of one (account, region) pair in the scans over several pairs:
\*   1 no alarm at all
\*   2 one metric alarm, in ALARM for 5 hours (explicit start date)
\*   3 one composite alarm, the response carrying no MetricAlarms list
\*   4 an excluded composite alarm and an excluded metric alarm
\*   5 two pages: a metric alarm in ALARM for 2 hours (datapoints), then a
\*     metric alarm that went OK 30 hours ago
ScanStore(k, account, region, clock) ==
    CASE k = 1 ->
            Store(<<[CompositeAlarms |-> <<>>, MetricAlarms |-> <<>>]>>, <<>>)
      [] k = 2 ->
            Store(<<[CompositeAlarms |-> <<>>,
                     MetricAlarms |-> <<WithReason(
                        Alarm(account, region, N_WarnLatency, S_ALARM, clock - 5 * MsPerHour),
                        StartDatePayload(clock - 5 * MsPerHour))>>]>>,
                  <<HistoryItem(N_WarnLatency, clock - 5 * MsPerHour, S_toAlarm)>>)
      [] k = 3 ->
            Store(<<[CompositeAlarms |->
                        <<Alarm(account, region, N_CompositeApi, S_ALARM, clock - MsPerHour)>>]>>,
                  <<HistoryItem(N_CompositeApi, clock - MsPerHour, S_toAlarm)>>)
      [] k = 4 ->
            Store(<<[CompositeAlarms |->
                        <<Alarm(account, region, N_ASOutGroup, S_ALARM, clock - 2 * MsPerHour)>>,
                     MetricAlarms |->
                        <<Alarm(account, region, N_TargetTracking, S_ALARM, clock - 2 * MsPerHour)>>]>>,
                  <<HistoryItem(N_TargetTracking, clock - 2 * MsPerHour, S_toAlarm)>>)
      [] k = 5 ->
            Store(<<[CompositeAlarms |-> <<>>,
                     MetricAlarms |-> <<WithReason(
                        Alarm(account, region, N_ErrorDb, S_ALARM, clock - 2 * MsPerHour),
                        DatapointsPayload(<<clock - 2 * MsPerHour, clock - 3 * MsPerHour>>))>>],
                    [MetricAlarms |->
                        <<Alarm(account, region, N_InfoQueue, S_OK, clock - 30 * MsPerHour)>>]>>,
                  <<HistoryItem(N_InfoQueue, clock - 31 * MsPerHour, S_toAlarm),
                    HistoryItem(N_InfoQueue, clock - 30 * MsPerHour, S_toOk),
                    HistoryItem(N_ErrorDb, clock - 6 * MsPerHour, S_toAlarm),
                    HistoryItem(N_ErrorDb, clock - 4 * MsPerHour, S_toOk),
                    HistoryItem(N_ErrorDb, clock - 2 * MsPerHour, S_toAlarm)>>)

\* process.env.SEARCH_ACCOUNTS.split(",") and SEARCH_REGIONS.split(",")
Env(accounts, regionCodes) ==
    [SEARCH_ACCOUNTS |-> accounts, SEARCH_REGIONS |-> regionCodes]

\* the (account, region) pairs of a configuration
Pairs(e) ==
    {<<e.SEARCH_ACCOUNTS[i], e.SEARCH_REGIONS[j]>> :
        i \in 1..Len(e.SEARCH_ACCOUNTS), j \in 1..Len(e.SEARCH_REGIONS)}

\* the configuration of the scans over several pairs
ScanEnv == Env(<<S_acct1, S_acct2>>, <<S_useast1, S_useast2>>)

\* the scheduled lambdas
ScanLambdas == {"reminders", "report"}

----------------------------------------------------------------------------
(* The scheduled handlers: alarm-slack-reminders and alarm-slack-report *)

\* the handler before its first statement
Start(lambda, e, w, clock) ==
    /\ fn = lambda
    /\ env = e
    /\ world = w
    /\ now = clock
    /\ pc = "client"
    /\ ai = 1
    /\ ri = 1
    /\ cloudwatch = Undefined
    /\ nextToken = Undefined
    /\ frames = <<>>
    /\ data = Undefined
    /\ alarms = [CompositeAlarms |-> <<>>, MetricAlarms |-> <<>>]
    /\ reports = <<>>
    /\ calls = <<>>
    /\ outbox = <<>>
    /\ event = Undefined
    /\ blox = <<>>
    /\ desc = Undefined
    /\ tagList = Undefined
    /\ history = Undefined
    /\ lines = <<>>
    /\ args = Undefined
    /\ result = Undefined

\* the (account, region) pair the loops are at
accountId == env.SEARCH_ACCOUNTS[ai]
region == env.SEARCH_REGIONS[ri]

\* a rejected await: nothing catches it, the handler's promise rejects
Throw == pc' = "failed"

\* async function cloudWatchClient(accountId, region): one AssumeRole request,
\* which the identity provider grants or denies
cloudWatchClient ==
    /\ fn \in ScanLambdas
    /\ pc = "client"
    /\ calls' = Append(calls, [api |-> "AssumeRole",
                               account |-> accountId,
                               region |-> region,
                               RoleSessionName |-> "reminders_lambda_reader"])
    /\ \E granted \in BOOLEAN :
          IF granted
          THEN /\ cloudwatch' = [region |-> region,
                                 credentials |-> [account |-> accountId,
                                                  session |-> Len(calls) + 1]]
               /\ nextToken' = Undefined
               /\ pc' = "describe"
          ELSE /\ Throw
               /\ UNCHANGED <<cloudwatch, nextToken>>
    /\ UNCHANGED <<fn, env, world, now, ai, ri, frames, data, alarms, reports,
                   outbox, event, blox, desc, tagList,
                   history, lines>>
    /\ UNCHANGED <<args, result>>

\* describeParams with the state filter on the first request only
describeParams_FilterFirstOnly ==
    IF nextToken = Undefined
    THEN (IF fn = "reminders"
          THEN [StateValue |-> S_ALARM,
                AlarmTypes |-> <<"CompositeAlarm", "MetricAlarm">>]
          ELSE [AlarmTypes |-> <<"CompositeAlarm", "MetricAlarm">>])
    ELSE [AlarmTypes |-> <<"CompositeAlarm", "MetricAlarm">>,
          NextToken |-> nextToken]

\* the params of describeAllAlarms: reminders ask for state ALARM, the report
\* for every state; NextToken only when there is one
describeParams ==
    LET base == IF fn = "reminders"
                THEN [StateValue |-> S_ALARM,
                      AlarmTypes |-> <<"CompositeAlarm", "MetricAlarm">>]
                ELSE [AlarmTypes |-> <<"CompositeAlarm", "MetricAlarm">>]
    IN  IF nextToken = Undefined THEN base
        ELSE [f \in DOMAIN base \cup {"NextToken"} |->
                IF f = "NextToken" THEN nextToken ELSE base[f]]

\* const results = {...}; the two pushes of the lists the response carries
pageResults(response) ==
    [CompositeAlarms |-> IF Has(response, "CompositeAlarms")
                         THEN response.CompositeAlarms ELSE <<>>,
     MetricAlarms |-> IF Has(response, "MetricAlarms")
                      THEN response.MetricAlarms ELSE <<>>]

\* describeAllAlarms down to its recursive call: one DescribeAlarms request,
\* which the backend answers or fails
describeAllAlarms ==
    /\ fn \in ScanLambdas
    /\ pc = "describe"
    /\ calls' = Append(calls, [api |-> "DescribeAlarms",
                               account |-> cloudwatch.credentials.account,
                               region |-> cloudwatch.region,
                               session |-> cloudwatch.credentials.session,
                               params |-> describeParams])
    /\ \E answered \in BOOLEAN :
          IF answered
          THEN LET response == BackendDescribeAlarms(
                                  world[<<cloudwatch.credentials.account,
                                          cloudwatch.region>>], describeParams)
               IN  /\ frames' = Append(frames, pageResults(response))
                   /\ IF Has(response, "NextToken")
                      THEN /\ nextToken' = response.NextToken
                           /\ pc' = "describe"
                      ELSE /\ nextToken' = Undefined
                           /\ pc' = "return"
          ELSE /\ Throw
               /\ UNCHANGED <<frames, nextToken>>
    /\ UNCHANGED <<fn, env, world, now, ai, ri, cloudwatch, data, alarms,
                   reports, outbox, event, blox, desc, tagList,
                   history, lines>>
    /\ UNCHANGED <<args, result>>

\* describeAllAlarmsReturn with `more` put in front of the caller's results
describeAllAlarmsReturn_MoreFirst ==
    /\ fn \in ScanLambdas
    /\ pc = "return"
    /\ IF Len(frames) > 1
       THEN LET more == frames[Len(frames)]
                results == frames[Len(frames) - 1]
            IN  /\ frames' = Append(SubSeq(frames, 1, Len(frames) - 2),
                        [CompositeAlarms |-> more.CompositeAlarms \o results.CompositeAlarms,
                         MetricAlarms |-> more.MetricAlarms \o results.MetricAlarms])
                /\ UNCHANGED <<data, pc>>
       ELSE /\ data' = frames[1]
            /\ frames' = <<>>
            /\ pc' = "merge"
    /\ UNCHANGED <<fn, env, world, now, ai, ri, cloudwatch, nextToken, alarms,
                   reports, calls, outbox, event, blox, desc, tagList,
                   history, lines>>
    /\ UNCHANGED <<args, result>>

\* describeAllAlarms from its recursive call on: `more` is pushed behind the
\* caller's own results and the call returns; the outermost call returns to
\* the handler
describeAllAlarmsReturn ==
    /\ fn \in ScanLambdas
    /\ pc = "return"
    /\ IF Len(frames) > 1
       THEN LET more == frames[Len(frames)]
                results == frames[Len(frames) - 1]
            IN  /\ frames' = Append(SubSeq(frames, 1, Len(frames) - 2),
                        [CompositeAlarms |-> results.CompositeAlarms \o more.CompositeAlarms,
                         MetricAlarms |-> results.MetricAlarms \o more.MetricAlarms])
                /\ UNCHANGED <<data, pc>>
       ELSE /\ data' = frames[1]
            /\ frames' = <<>>
            /\ pc' = "merge"
    /\ UNCHANGED <<fn, env, world, now, ai, ri, cloudwatch, nextToken, alarms,
                   reports, calls, outbox, event, blox, desc, tagList,
                   history, lines>>
    /\ UNCHANGED <<args, result>>

\* the end of the inner loop body: the next region, else the next account,
\* else the statements after the loops
NextPair ==
    IF ri < Len(env.SEARCH_REGIONS)
    THEN ri' = ri + 1 /\ ai' = ai /\ pc' = "client"
    ELSE IF ai < Len(env.SEARCH_ACCOUNTS)
    THEN ri' = 1 /\ ai' = ai + 1 /\ pc' = "client"
    ELSE ri' = ri /\ ai' = ai /\ pc' = "finish"

\* the handler's merge with the sort applied to the merged sequence
remindersMerge_SortMerged ==
    /\ fn = "reminders"
    /\ pc = "merge"
    /\ alarms' = [CompositeAlarms |-> alarms.CompositeAlarms \o data.CompositeAlarms,
                  MetricAlarms |-> ArraySort(
                        alarms.MetricAlarms
                            \o RetainedMetricAlarms(data.MetricAlarms, now),
                        "sortByDuration")]
    /\ NextPair
    /\ UNCHANGED <<fn, env, world, now, cloudwatch, nextToken, frames, data,
                   reports, calls, outbox, event, blox, desc, tagList,
                   history, lines>>
    /\ UNCHANGED <<args, result>>

\* reminders, the two pushes into `alarms`
remindersMerge ==
    /\ fn = "reminders"
    /\ pc = "merge"
    /\ alarms' = [CompositeAlarms |-> alarms.CompositeAlarms \o data.CompositeAlarms,
                  MetricAlarms |-> alarms.MetricAlarms
                                      \o RetainedMetricAlarms(data.MetricAlarms, now)]
    /\ NextPair
    /\ UNCHANGED <<fn, env, world, now, cloudwatch, nextToken, frames, data,
                   reports, calls, outbox, event, blox, desc, tagList,
                   history, lines>>
    /\ UNCHANGED <<args, result>>

\* alarm.alarmName, a property the alarm objects do not have
alarmNameParam(alarm) ==
    IF Has(alarm, "alarmName") THEN [AlarmName |-> alarm.alarmName]
    ELSE [x \in {} |-> x]

\* the input of paginateDescribeAlarmHistory for one alarm
historyParams(alarm, clock) ==
    alarmNameParam(alarm) @@ [HistoryItemType |-> "StateUpdate",
                              StartDate |-> hoursAgo26(clock),
                              EndDate |-> clock]

\* alarmHistoryItems.filter((i) => i.HistorySummary.includes("to ALARM")).length
RECURSIVE toAlarmCount(_)
toAlarmCount(alarmHistoryItems) ==
    IF Len(alarmHistoryItems) = 0 THEN 0
    ELSE (IF Includes(alarmHistoryItems[1].HistorySummary, S_toAlarmNeedle)
          THEN 1 ELSE 0) + toAlarmCount(Tail(alarmHistoryItems))

\* the alarms of the pair the report keeps: filterByName and
\* ts >= +hoursAgo26
RECURSIVE Reported(_, _)
Reported(metricAlarms, clock) ==
    IF Len(metricAlarms) = 0 THEN <<>>
    ELSE (IF /\ filterByName(metricAlarms[1])
             /\ DateParseDate(metricAlarms[1].StateTransitionedTimestamp)
                    >= hoursAgo26(clock)
          THEN <<metricAlarms[1]>> ELSE <<>>)
            \o Reported(Tail(metricAlarms), clock)

\* report, the loop over the metric alarms of the pair: the history of each
\* alarm kept is fetched and its transitions to ALARM counted
reportMerge ==
    /\ fn = "report"
    /\ pc = "merge"
    /\ LET kept == Reported(data.MetricAlarms, now)
           store == world[<<cloudwatch.credentials.account, cloudwatch.region>>]
       IN  /\ calls' = calls \o [i \in 1..Len(kept) |->
                                    [api |-> "DescribeAlarmHistory",
                                     account |-> cloudwatch.credentials.account,
                                     region |-> cloudwatch.region,
                                     session |-> cloudwatch.credentials.session,
                                     params |-> historyParams(kept[i], now)]]
           /\ \E answered \in BOOLEAN :
                IF answered \/ Len(kept) = 0
                THEN /\ reports' = reports \o [i \in 1..Len(kept) |->
                            [Alarm |-> kept[i],
                             Count |-> toAlarmCount(BackendAlarmHistory(
                                          store.history, historyParams(kept[i], now)))]]
                     /\ NextPair
                ELSE /\ Throw
                     /\ UNCHANGED <<reports, ai, ri>>
    /\ UNCHANGED <<fn, env, world, now, cloudwatch, nextToken, frames, data,
                   alarms, outbox, event, blox, desc, tagList,
                   history, lines>>
    /\ UNCHANGED <<args, result>>

HeaderBlock(text) ==
    [type |-> "header",
     text |-> [type |-> "plain_text", text |-> text, emoji |-> TRUE]]

SectionBlock(text) ==
    [type |-> "section", text |-> [type |-> "mrkdwn", text |-> text]]

\* the PutEventsCommand entry both scheduled lambdas send
RelayEntry(channel, fallback, blocks) ==
    [Source |-> "org.prx.cloudwatch-alarm-reminders",
     DetailType |-> "Slack Message Relay Message Payload",
     Detail |-> [username |-> "Amazon CloudWatch Alarms",
                 icon_emoji |-> ":ops-cloudwatch-alarm:",
                 channel |-> channel,
                 attachments |-> <<[color |-> "#a30200",
                                    fallback |-> fallback,
                                    blocks |-> blocks]>>]]

\* reminders, the section block of one metric alarm
reminderSection(a, clock) ==
    LET account == ArnField(a.AlarmArn, 4)
        url == alarmConsole(a)
        ssoUrl == ssoDeepLink(account, url)
        textLines == <<<<"*", "<">> \o ssoUrl \o <<"|">> \o titleReminders(a) \o <<">", "*">>>>
                    \o (IF Has(a, "StateReasonData")
                        THEN <<started(JSONParse(a.StateReasonData), clock)>>
                        ELSE <<>>)
    IN  SectionBlock(Join(textLines, <<"\n">>))

\* the handler with the count taken from the metric alarms alone
remindersFinish_CountMetricOnly ==
    /\ fn = "reminders"
    /\ pc = "finish"
    /\ LET count == Len(alarms.MetricAlarms)
           blocks == <<HeaderBlock(S_reminderHeader)>>
                        \o [i \in 1..Len(alarms.MetricAlarms) |->
                                reminderSection(alarms.MetricAlarms[i], now)]
       IN  IF count = 0
           THEN outbox' = outbox
           ELSE outbox' = Append(outbox, RelayEntry("G2QH6NMEH",
                    S_fallbackHead \o NumberToString(count) \o S_fallbackTail,
                    blocks))
    /\ pc' = "done"
    /\ UNCHANGED <<fn, env, world, now, ai, ri, cloudwatch, nextToken, frames,
                   data, alarms, reports, calls, event, blox, desc, tagList,
                   history, lines>>
    /\ UNCHANGED <<args, result>>

\* remindersFinish without the early return on count === 0
remindersFinish_NoEarlyReturn ==
    /\ fn = "reminders"
    /\ pc = "finish"
    /\ LET count == Len(alarms.CompositeAlarms) + Len(alarms.MetricAlarms)
           blocks == <<HeaderBlock(S_reminderHeader)>>
                        \o [i \in 1..Len(alarms.MetricAlarms) |->
                                reminderSection(alarms.MetricAlarms[i], now)]
       IN  outbox' = Append(outbox, RelayEntry("G2QH6NMEH",
                    S_fallbackHead \o NumberToString(count) \o S_fallbackTail,
                    blocks))
    /\ pc' = "done"
    /\ UNCHANGED <<fn, env, world, now, ai, ri, cloudwatch, nextToken, frames,
                   data, alarms, reports, calls, event, blox, desc, tagList,
                   history, lines>>
    /\ UNCHANGED <<args, result>>

\* reminders, from `const count` to the end of the handler
remindersFinish ==
    /\ fn = "reminders"
    /\ pc = "finish"
    /\ LET count == Len(alarms.CompositeAlarms) + Len(alarms.MetricAlarms)
           blocks == <<HeaderBlock(S_reminderHeader)>>
                        \o [i \in 1..Len(alarms.MetricAlarms) |->
                                reminderSection(alarms.MetricAlarms[i], now)]
       IN  IF count = 0
           THEN outbox' = outbox
           ELSE outbox' = Append(outbox, RelayEntry("G2QH6NMEH",
                    S_fallbackHead \o NumberToString(count) \o S_fallbackTail,
                    blocks))
    /\ pc' = "done"
    /\ UNCHANGED <<fn, env, world, now, ai, ri, cloudwatch, nextToken, frames,
                   data, alarms, reports, calls, event, blox, desc, tagList,
                   history, lines>>
    /\ UNCHANGED <<args, result>>

\* report, one line of the section: *title*: `count`
reportLine(r) ==
    <<"*">> \o titleReport(r.Alarm) \o <<"*", ":", " ", "backtick">>
        \o NumberToString(r.Count) \o <<"backtick">>

\* report, from `const blocks` to the end of the handler
reportFinish ==
    /\ fn = "report"
    /\ pc = "finish"
    /\ LET textLines == [i \in 1..Len(reports) |-> reportLine(reports[i])]
           blocks == <<HeaderBlock(S_reportHeader),
                       SectionBlock(Join(textLines, <<"\n">>))>>
       IN  IF Len(reports) = 0
           THEN outbox' = outbox
           ELSE outbox' = Append(outbox, RelayEntry("CHZTAGBM2", S_tktktk, blocks))
    /\ pc' = "done"
    /\ UNCHANGED <<fn, env, world, now, ai, ri, cloudwatch, nextToken, frames,
                   data, alarms, reports, calls, event, blox, desc, tagList,
                   history, lines>>
    /\ UNCHANGED <<args, result>>

\* the steps of the two scheduled handlers
Next ==
    \/ cloudWatchClient
    \/ describeAllAlarms
    \/ describeAllAlarmsReturn
    \/ remindersMerge
    \/ reportMerge
    \/ remindersFinish
    \/ reportFinish

\* the scans over ScanEnv, every pair holding one of the ScanScenarios
Init ==
    \E lambda \in ScanLambdas, k \in [Pairs(ScanEnv) -> ScanScenarios] :
        Start(lambda, ScanEnv,
              [p \in Pairs(ScanEnv) |-> ScanStore(k[p], p[1], p[2], InvocationTime)],
              InvocationTime)

Spec == Init /\ [][Next]_vars

----------------------------------------------------------------------------
(* One pair, every way of paging its alarms *)

\* the most pages the backend lays one pair's alarms out in
MaxPages == 3

\* the most metric alarms, and the most composite alarms, of the paged pair
MaxListedMetric == 3
MaxListedComposite == 1

\* the configuration of the runs over one pair
PairEnv == Env(<<S_acct1>>, <<S_useast1>>)

\* the name of the i-th alarm of a family
NumberedName(prefix, i) == prefix \o <<"-">> \o NumberToString(i)

\* the i-th alarm to page: in state ALARM when i is odd, OK when even
ListedAlarm(prefix, i, clock) ==
    Alarm(S_acct1, S_useast1, NumberedName(prefix, i),
          IF i % 2 = 1 THEN S_ALARM ELSE S_OK, clock - i * MsPerHour)

\* where a list of `len` elements is cut into n consecutive slices
Cuts(len, n) ==
    {c \in [0..n -> 0..len] :
        /\ c[0] = 0
        /\ c[n] = len
        /\ \A i \in 1..n : c[i - 1] <= c[i]}

\* the page that holds the given slices; with `omit`, an empty list is left
\* out of the response instead of being sent empty
Page(composite, metric, omit) ==
    LET fields == (IF omit /\ composite = <<>> THEN {} ELSE {"CompositeAlarms"})
                    \cup (IF omit /\ metric = <<>> THEN {} ELSE {"MetricAlarms"})
    IN  [f \in fields |-> IF f = "CompositeAlarms" THEN composite ELSE metric]

\* every store that holds the first nc composite and nm metric alarms, in
\* order, over n pages
PagedStoresOf(n, clock) ==
    {Store([i \in 1..n |->
                Page([j \in 1..(cc[i] - cc[i - 1]) |->
                        ListedAlarm(<<"c">>, cc[i - 1] + j, clock)],
                     [j \in 1..(mc[i] - mc[i - 1]) |->
                        ListedAlarm(<<"m">>, mc[i - 1] + j, clock)],
                     omit)],
           <<>>) :
        cc \in UNION {Cuts(nc, n) : nc \in 0..MaxListedComposite},
        mc \in UNION {Cuts(nm, n) : nm \in 0..MaxListedMetric},
        omit \in BOOLEAN}

\* the same over at most MaxPages pages
PagedStores(clock) == UNION {PagedStoresOf(n, clock) : n \in 1..MaxPages}

\* one pair, paged in every way
InitListing ==
    \E lambda \in ScanLambdas, store \in PagedStores(InvocationTime) :
        Start(lambda, PairEnv, [p \in Pairs(PairEnv) |-> store], InvocationTime)

SpecListing == InitListing /\ [][Next]_vars

----------------------------------------------------------------------------
(* One pair, one page, alarms of every kind of duration *)

\* the most metric alarms of the pair
MaxPairAlarms == 3

\* the metric alarms told apart by what their state-reason payload gives:
\*   1 no StateReasonData            6 start date 2 hours ago
\*   2 start date now                7 datapoints 3 and 2 hours ago, the most
\*   3 start date 1 hour ahead         recent first
\*   4 start date 30 minutes ago     8 datapoints 7 and 5 hours ago, the most
\*   5 start date 1 hour ago, and      recent last
\*     1 hour and 1 ms ago (9)
DurationKinds == 1..9

DurationAlarm(k, clock) ==
    LET base == Alarm(S_acct1, S_useast1, NumberedName(<<"d">>, k), S_ALARM,
                      clock - MsPerHour)
    IN  CASE k = 1 -> base
          [] k = 2 -> WithReason(base, StartDatePayload(clock))
          [] k = 3 -> WithReason(base, StartDatePayload(clock + MsPerHour))
          [] k = 4 -> WithReason(base, StartDatePayload(clock - 30 * MsPerMinute))
          [] k = 5 -> WithReason(base, StartDatePayload(clock - MsPerHour))
          [] k = 6 -> WithReason(base, StartDatePayload(clock - 2 * MsPerHour))
          [] k = 7 -> WithReason(base, DatapointsPayload(
                        <<clock - 2 * MsPerHour, clock - 3 * MsPerHour>>))
          [] k = 8 -> WithReason(base, DatapointsPayload(
                        <<clock - 7 * MsPerHour, clock - 5 * MsPerHour>>))
          [] k = 9 -> WithReason(base, StartDatePayload(clock - MsPerHour - 1))

\* the lists of at most MaxPairAlarms different kinds, in every order
DurationLists ==
    UNION {{ks \in [1..n -> DurationKinds] : \A i, j \in 1..n : i # j => ks[i] # ks[j]} :
            n \in 0..MaxPairAlarms}

InitPair ==
    \E lambda \in ScanLambdas, ks \in DurationLists :
        Start(lambda, PairEnv,
              [p \in Pairs(PairEnv) |->
                  Store(<<[CompositeAlarms |-> <<>>,
                           MetricAlarms |-> [i \in 1..Len(ks) |->
                                DurationAlarm(ks[i], InvocationTime)]]>>,
                        <<>>)],
              InvocationTime)

SpecPair == InitPair /\ [][Next]_vars

----------------------------------------------------------------------------
(* One pair with a large estate of alarms whose names are as long as the   *)
(* backend allows                                                          *)

\* the longest alarm name CloudWatch accepts
MaxAlarmNameLength == 255

\* the most alarms of the estate
MaxEstate == 12

\* the alarms a page of the estate holds
EstatePageSize == 5

\* the i-th alarm of the estate: in ALARM for 2 hours
EstateAlarm(i, clock) ==
    LET digits == NumberToString(i)
        name == [k \in 1..(MaxAlarmNameLength - Len(digits)) |-> "x"] \o digits
    IN  WithReason(Alarm(S_acct1, S_useast1, name, S_ALARM, clock - 2 * MsPerHour),
                   StartDatePayload(clock - 2 * MsPerHour))

\* n alarms in pages of `size`
EstateStore(n, size, clock) ==
    LET pages == IF n = 0 THEN 1 ELSE (n + size - 1) \div size
    IN  Store([i \in 1..pages |->
                 [CompositeAlarms |-> <<>>,
                  MetricAlarms |->
                     [j \in 1..(IF i * size <= n THEN size ELSE n - (i - 1) * size) |->
                        EstateAlarm((i - 1) * size + j, clock)]]],
              <<>>)

InitEstate ==
    \E lambda \in ScanLambdas, n \in 0..MaxEstate, size \in {EstatePageSize, MaxEstate} :
        Start(lambda, PairEnv,
              [p \in Pairs(PairEnv) |-> EstateStore(n, size, InvocationTime)],
              InvocationTime)

SpecEstate == InitEstate /\ [][Next]_vars

----------------------------------------------------------------------------
(* alarm-slack-notifications: blocks(event) of builder.mjs *)

\* Text blocks within attachments have a 3000 character limit
SlackTextLimit == 3000

\* the position of the first match of /(~annotations.*?\)\)\))/ in text and
\* the position its closing parentheses start at, or none: the leftmost
\* marker that has three closing parentheses after it with no line
\* terminator in between, up to the nearest such parentheses
AnnotationsMatch(text) ==
    LET closings == {j \in 1..Len(text) : MatchAt(text, j, S_closing)}
        newlines == {k \in 1..Len(text) : text[k] = "\n"}
        ends(i) == {j \in closings :
                        /\ j >= i + Len(S_annotations)
                        /\ \A k \in newlines : ~ (i <= k /\ k < j)}
        starts == {i \in 1..Len(text) :
                        MatchAt(text, i, S_annotations) /\ ends(i) # {}}
    IN  IF starts = {} THEN Undefined
        ELSE LET i == CHOOSE x \in starts : \A y \in starts : x <= y
                 j == CHOOSE x \in ends(i) : \A y \in ends(i) : x <= y
             IN  [index |-> i, closing |-> j]

\* text.replace(/(~annotations.*?\)\)\))/, "")
RemoveAnnotations(text) ==
    LET m == AnnotationsMatch(text)
    IN  IF m = Undefined THEN text
        ELSE SubSeq(text, 1, m.index - 1)
                \o SubSeq(text, m.closing + Len(S_closing), Len(text))

\* DetailsText without the final substring(0, 3000)
DetailsText_NoHardTruncation(detail) ==
    LET joined == Join(detail, <<"\n">>)
    IN  IF Len(joined) > SlackTextLimit
        THEN RemoveAnnotations(joined) ELSE joined

\* the details text of blocks(): the lines joined, the annotations removed
\* when the text is over the limit, the text cut when it is still over it
DetailsText(detail) ==
    LET joined == Join(detail, <<"\n">>)
        reduced == IF Len(joined) > SlackTextLimit
                   THEN RemoveAnnotations(joined) ELSE joined
    IN  IF Len(reduced) > SlackTextLimit
        THEN Substring0(reduced, SlackTextLimit) ELSE reduced

\* builder.mjs: function title(event)
titleNotifications(ev) ==
    ev.detail.state.value \o S_bar \o regions(ev.region)
        \o S_raquo \o cleanNameNotifications(ev.detail.alarmName)

\* urls.mjs: alarmConsoleUrl(event), a link to the alarm in the console of
\* the event's region
alarmConsoleUrl(ev) ==
    S_consoleHead \o ev.region \o S_consoleTail
        \o ReplaceAllChar(EncodeURI(ReplaceAllChar(ev.detail.alarmName, " ", <<"+">>)),
                          "%", <<"$">>)

\* a string of n characters, all told apart from their neighbours
Pad(n) ==
    [i \in 1..n |-> <<"0", "1", "2", "3", "4", "5", "6", "7", "8", "9">>[(i % 10) + 1]]

\* what the single-metric detail builders (alarm/single-metric.mjs, and the
\* one of builder-ok.mjs) may return: lists of lines, without and with the
\* annotations of a console URL, whose joined length is under, at and over
\* the limit
SingleMetricLines ==
    {<<Pad(40)>>,
     <<Pad(20), Pad(30)>>,
     <<Pad(SlackTextLimit)>>,
     <<Pad(SlackTextLimit + 1)>>,
     <<Pad(SlackTextLimit \div 2 - 1), Pad(SlackTextLimit \div 2)>>,
     <<Pad(SlackTextLimit \div 2), Pad(SlackTextLimit \div 2)>>,
     <<Pad(100) \o S_annotations \o Pad(SlackTextLimit) \o S_closing \o Pad(50)>>,
     <<Pad(40) \o S_annotations \o Pad(10) \o S_closing \o Pad(50)>>,
     <<Pad(SlackTextLimit) \o S_annotations \o Pad(10) \o S_closing \o Pad(50)>>,
     <<Pad(SlackTextLimit - 5) \o S_annotations \o Pad(10)>>,
     <<Pad(SlackTextLimit) \o S_annotations, S_closing>>,
     <<Pad(10) \o S_annotations \o Pad(5) \o S_closing \o Pad(SlackTextLimit)
            \o S_annotations \o Pad(5) \o S_closing>>}

\* builder-alarm.mjs: detailLines(event, desc, history, tagList), as the set
\* of its outcomes: lines, or the TypeError of reading .length of undefined
alarmDetailLines(ev) ==
    IF ~ Has(ev.detail.configuration, "metrics")
    THEN {[error |-> "TypeError"]}
    ELSE IF Len(ev.detail.configuration.metrics) = 1
    THEN {[lines |-> ls] : ls \in SingleMetricLines}
    ELSE {[lines |-> <<S_unknownMetric>>]}

\* builder-ok.mjs: detailLines(event, desc, history, tagList, cwClient): the
\* same single-metric branching as for ALARM
okDetailLines(ev) ==
    IF /\ Has(ev.detail.configuration, "metrics")
       /\ Len(ev.detail.configuration.metrics) = 1
    THEN {[lines |-> ls] : ls \in SingleMetricLines}
    ELSE {[lines |-> <<S_unknownMetric>>]}

\* builder.mjs: detailLines(event, desc, history, tagList, cwClient)
detailLines(ev) ==
    IF ev.detail.state.value = S_INSUFFICIENT_DATA
    THEN {[lines |-> <<S_insufficient>>]}
    ELSE IF ev.detail.state.value = S_OK THEN okDetailLines(ev)
    ELSE IF ev.detail.state.value = S_ALARM THEN alarmDetailLines(ev)
    ELSE {[lines |-> <<>>]}

\* DescribeAlarms with AlarmNames and no AlarmTypes: the metric alarms of the
\* pair that bear one of the names
BackendDescribeAlarmsNamed(store, params) ==
    LET all == Flatten([k \in 1..Len(store.pages) |->
                    IF Has(store.pages[k], "MetricAlarms")
                    THEN store.pages[k].MetricAlarms ELSE <<>>])
        RECURSIVE Named(_)
        Named(arr) ==
            IF Len(arr) = 0 THEN <<>>
            ELSE (IF \E n \in 1..Len(params.AlarmNames) :
                        arr[1].AlarmName = params.AlarmNames[n]
                  THEN <<arr[1]>> ELSE <<>>) \o Named(Tail(arr))
    IN  [MetricAlarms |-> Named(all), CompositeAlarms |-> <<>>]

\* async function cloudWatchClient(event): one AssumeRole request for the
\* account of the event
cloudWatchClientNotifications ==
    /\ fn = "notifications"
    /\ pc = "client"
    /\ calls' = Append(calls, [api |-> "AssumeRole",
                               account |-> event.account,
                               region |-> event.region,
                               RoleSessionName |-> "notifications_lambda_reader"])
    /\ \E granted \in BOOLEAN :
          IF granted
          THEN /\ cloudwatch' = [region |-> event.region,
                                 credentials |-> [account |-> event.account,
                                                  session |-> Len(calls) + 1]]
               /\ pc' = "desc"
          ELSE /\ Throw
               /\ UNCHANGED cloudwatch
    /\ UNCHANGED <<fn, env, world, now, ai, ri, nextToken, frames, data, alarms,
                   reports, outbox, event, blox, desc, tagList, history, lines>>
    /\ UNCHANGED <<args, result>>

\* a request of blocks() through the client of the event's account
BlocksCall(api, params) ==
    [api |-> api,
     account |-> cloudwatch.credentials.account,
     region |-> cloudwatch.region,
     session |-> cloudwatch.credentials.session,
     params |-> params]

\* the store of the pair the client of blocks() talks to
BlocksStore == world[<<cloudwatch.credentials.account, cloudwatch.region>>]

\* blocks(): const desc = await cloudwatch.send(new DescribeAlarmsCommand(...))
blocksDescribeAlarms ==
    /\ fn = "notifications"
    /\ pc = "desc"
    /\ LET params == [AlarmNames |-> <<event.detail.alarmName>>]
       IN  /\ calls' = Append(calls, BlocksCall("DescribeAlarms", params))
           /\ \E answered \in BOOLEAN :
                IF answered
                THEN /\ desc' = BackendDescribeAlarmsNamed(BlocksStore, params)
                     /\ pc' = "tags"
                ELSE /\ Throw
                     /\ UNCHANGED desc
    /\ UNCHANGED <<fn, env, world, now, ai, ri, cloudwatch, nextToken, frames,
                   data, alarms, reports, outbox, event, blox, tagList, history,
                   lines>>
    /\ UNCHANGED <<args, result>>

\* blocks(): const tagList = await cloudwatch.send(new
\* ListTagsForResourceCommand(...))
blocksListTags ==
    /\ fn = "notifications"
    /\ pc = "tags"
    /\ LET params == [ResourceARN |-> event.resources[1]]
       IN  /\ calls' = Append(calls, BlocksCall("ListTagsForResource", params))
           /\ \E answered \in BOOLEAN :
                IF answered
                THEN /\ tagList' = [Tags |-> BlocksStore.tags]
                     /\ pc' = "history"
                ELSE /\ Throw
                     /\ UNCHANGED tagList
    /\ UNCHANGED <<fn, env, world, now, ai, ri, cloudwatch, nextToken, frames,
                   data, alarms, reports, outbox, event, blox, desc, history,
                   lines>>
    /\ UNCHANGED <<args, result>>

\* blocks(): the state updates since historyStart, every page of the
\* paginator pushed on history.AlarmHistoryItems
blocksDescribeAlarmHistory ==
    /\ fn = "notifications"
    /\ pc = "history"
    /\ LET params == [AlarmName |-> event.detail.alarmName,
                      HistoryItemType |-> "StateUpdate",
                      StartDate |-> SetUTCHours(now, -24),
                      EndDate |-> now]
       IN  /\ calls' = Append(calls, BlocksCall("DescribeAlarmHistory", params))
           /\ \E answered \in BOOLEAN :
                IF answered
                THEN /\ history' = [AlarmHistoryItems |->
                                        BackendAlarmHistory(BlocksStore.history, params)]
                     /\ pc' = "lines"
                ELSE /\ Throw
                     /\ UNCHANGED history
    /\ UNCHANGED <<fn, env, world, now, ai, ri, cloudwatch, nextToken, frames,
                   data, alarms, reports, outbox, event, blox, desc, tagList,
                   lines>>
    /\ UNCHANGED <<args, result>>

\* blocks(): the linked title block is pushed and the detail lines awaited
blocksDetailLines ==
    /\ fn = "notifications"
    /\ pc = "lines"
    /\ blox' = Append(blox, SectionBlock(
                    <<"*", "<">> \o alarmConsoleUrl(event) \o <<"|">>
                        \o titleNotifications(event) \o <<">", "*">>))
    /\ \E outcome \in detailLines(event) :
          IF Has(outcome, "error")
          THEN /\ Throw
               /\ UNCHANGED lines
          ELSE /\ lines' = lines \o outcome.lines
               /\ pc' = "text"
    /\ UNCHANGED <<fn, env, world, now, ai, ri, cloudwatch, nextToken, frames,
                   data, alarms, reports, calls, outbox, event, desc, tagList,
                   history>>
    /\ UNCHANGED <<args, result>>

\* blocks() with the description block pushed whatever the state
blocksText_DescriptionAnyState ==
    /\ fn = "notifications"
    /\ pc = "text"
    /\ LET text == DetailsText(lines)
           description ==
                IF /\ Has(event.detail.configuration, "description")
                   /\ event.detail.configuration.description # <<>>
                THEN <<SectionBlock(event.detail.configuration.description)>>
                ELSE <<>>
       IN  blox' = Append(blox, SectionBlock(text)) \o description
    /\ pc' = "done"
    /\ UNCHANGED <<fn, env, world, now, ai, ri, cloudwatch, nextToken, frames,
                   data, alarms, reports, calls, outbox, event, desc, tagList,
                   history, lines>>
    /\ UNCHANGED <<args, result>>

\* blocks(), from `let text` to its return: the details block, and for ALARM
\* the block of the alarm's description when it has one
blocksText ==
    /\ fn = "notifications"
    /\ pc = "text"
    /\ LET text == DetailsText(lines)
           description ==
                IF /\ event.detail.state.value = S_ALARM
                   /\ Has(event.detail.configuration, "description")
                   /\ event.detail.configuration.description # <<>>
                THEN <<SectionBlock(event.detail.configuration.description)>>
                ELSE <<>>
       IN  blox' = Append(blox, SectionBlock(text)) \o description
    /\ pc' = "done"
    /\ UNCHANGED <<fn, env, world, now, ai, ri, cloudwatch, nextToken, frames,
                   data, alarms, reports, calls, outbox, event, desc, tagList,
                   history, lines>>
    /\ UNCHANGED <<args, result>>

\* one step of an invocation of blocks()
NextBlocks ==
    \/ cloudWatchClientNotifications
    \/ blocksDescribeAlarms
    \/ blocksListTags
    \/ blocksDescribeAlarmHistory
    \/ blocksDetailLines
    \/ blocksText

\* an EventBridge "CloudWatch Alarm State Change" event
NotificationEvent(account, regionCode, name, state, configuration) ==
    [account |-> account,
     region |-> regionCode,
     resources |-> <<AlarmArn(account, regionCode, name)>>,
     detail |-> [alarmName |-> name,
                 state |-> [value |-> state],
                 configuration |-> configuration]]

S_description ==
    <<"L", "a", "t", "e", "n", "c", "y", " ", "i", "s", " ", "h", "i", "g", "h">>

S_alarmRule ==
    <<"A", "L", "A", "R", "M", "(", "a", ")">>

\* a metric of an alarm's configuration
Metric(id) == [id |-> id]

\* the configurations of the events: one metric, several, an empty list, and
\* a composite alarm's, which has a rule and no metrics; each without a
\* description, with an empty one and with one
Configurations ==
    LET base == {[metrics |-> <<Metric("m1")>>],
                 [metrics |-> <<Metric("m1"), Metric("e1")>>],
                 [metrics |-> <<>>],
                 [alarmRule |-> S_alarmRule]}
        described(c, d) ==
            [f \in DOMAIN c \cup {"description"} |->
                IF f = "description" THEN d ELSE c[f]]
    IN  base \cup {described(c, d) : c \in base, d \in {<<>>, S_description}}

\* the events blocks() is called with
NotificationEvents ==
    {NotificationEvent(S_acct1, S_useast2, name, state, configuration) :
        name \in {N_WarnLatency, N_ErrorDb},
        state \in {S_ALARM, S_OK, S_INSUFFICIENT_DATA},
        configuration \in Configurations}

S_logGroupTag ==
    <<"p", "r", "x", ":", "o", "p", "s", ":", "c", "l", "o", "u", "d", "w", "a", "t", "c", "h", "-", "l", "o", "g", "-", "g", "r", "o", "u", "p", "-", "n", "a", "m", "e">>

S_logGroup ==
    <<"/", "a", "w", "s", "/", "e", "c", "s", "/", "w", "e", "b">>

\* the account and region of the event: the alarm of the event in its new
\* state among others, its tags, and the state updates of the last two days
NotificationWorld(ev, clock) ==
    [p \in {<<ev.account, ev.region>>} |->
        [pages |-> <<[MetricAlarms |->
                        <<Alarm(ev.account, ev.region, N_InfoQueue, S_OK,
                                clock - 30 * MsPerHour),
                          Alarm(ev.account, ev.region, ev.detail.alarmName,
                                ev.detail.state.value, clock)>>]>>,
         history |-> <<HistoryItem(ev.detail.alarmName, clock - 40 * MsPerHour, S_toAlarm),
                       HistoryItem(ev.detail.alarmName, clock - 30 * MsPerHour, S_toOk),
                       HistoryItem(N_InfoQueue, clock - 30 * MsPerHour, S_toOk),
                       HistoryItem(ev.detail.alarmName, clock - 20 * MsPerHour, S_toAlarm),
                       HistoryItem(ev.detail.alarmName, clock - 2 * MsPerHour, S_toOk)>>,
         tags |-> <<[Key |-> S_logGroupTag, Value |-> S_logGroup]>>]]

\* blocks(event) before its first statement
InitBlocks ==
    \E ev \in NotificationEvents :
        /\ fn = "notifications"
        /\ env = Env(<<>>, <<>>)
        /\ world = NotificationWorld(ev, InvocationTime)
        /\ now = InvocationTime
        /\ pc = "client"
        /\ ai = 1
        /\ ri = 1
        /\ cloudwatch = Undefined
        /\ nextToken = Undefined
        /\ frames = <<>>
        /\ data = Undefined
        /\ alarms = [CompositeAlarms |-> <<>>, MetricAlarms |-> <<>>]
        /\ reports = <<>>
        /\ calls = <<>>
        /\ outbox = <<>>
        /\ event = ev
        /\ blox = <<>>
        /\ desc = Undefined
        /\ tagList = Undefined
        /\ history = Undefined
        /\ lines = <<>>
        /\ args = Undefined
        /\ result = Undefined

SpecBlocks == InitBlocks /\ [][NextBlocks]_vars

----------------------------------------------------------------------------
(* The functions of the lambdas called on their own: one call per behaviour, *)
(* its arguments in args, what it returns in result                          *)

\* the elapsed times, in milliseconds, of the alarms started() is called
\* with: around each threshold, at the halves of each unit, and a start in
\* the future
ElapsedSamples ==
    {0, 1, 499, 500, 999, 1000, 1500, 12345, 59000, 59999,
     60000, 89999, 90000, 150000, 3570000, 3599999,
     3600000, 3600001, 5399999, 5400000, 9000000, 84600000, 86399000, 86399999,
     86400000, 86400001, 129599999, 129600000, 216000000, 306600000,
     0 - 1, 0 - 1000, 0 - 3600000}

\* the state-reason payloads of an alarm that began `elapsed` before clock:
\* with a start date, and with the evaluated datapoint of that instant
StartedPayloads(clock) ==
    {StartDatePayload(clock - e) : e \in ElapsedSamples}
        \cup {DatapointsPayload(<<clock - e>>) : e \in ElapsedSamples}

\* the calls of started(reasonData)
StartedCalls(clock) ==
    {[f |-> "started", reasonData |-> p] : p \in StartedPayloads(clock)}

\* export function channel(event): the Slack channel of a notification
channel(ev) ==
    LET name == ev.detail.alarmName
    IN  IF StartsWith(name, S_FATAL) THEN "G2QH13X62"
        ELSE IF StartsWith(name, S_ERROR) THEN "G2QH6NMEH"
        ELSE IF StartsWith(name, S_WARN) THEN "G2QHC2N7K"
        ELSE IF StartsWith(name, S_INFO) THEN "G2QHBL6UX"
        ELSE IF StartsWith(name, S_CRITICAL) THEN "G2QH13X62"
        ELSE IF StartsWith(name, S_MAJOR) THEN "G2QH6NMEH"
        ELSE IF StartsWith(name, S_MINOR) THEN "G2QHC2N7K"
        ELSE "#sandbox2"

\* the names of the alarms channel() and title() are called for: each
\* severity word, names without one, and one whose first word only begins
\* with a severity word
NamedAlarms ==
    {N_WarnLatency, N_FatalSomething, N_ErrorDb, N_InfoQueue, N_CompositeApi,
     N_CriticalAB, N_MinorDisk, N_WarningDisk, N_LowerWarn, N_TargetTracking,
     N_ASOutGroup}

\* the events of those alarms, in each state and region
NamedEvents ==
    {NotificationEvent(S_acct1, code, name, state, [metrics |-> <<Metric("m1")>>]) :
        code \in {S_useast1, S_useast2},
        name \in NamedAlarms,
        state \in {S_ALARM, S_OK, S_INSUFFICIENT_DATA}}

\* the calls of channel(event) and of title(event)
NamedCalls ==
    {[f |-> f, event |-> ev] : f \in {"channel", "title"}, ev \in NamedEvents}

\* channel(event) is called and returns
callChannel ==
    /\ fn = "function"
    /\ pc = "call"
    /\ args.f = "channel"
    /\ result' = channel(args.event)
    /\ pc' = "returned"
    /\ UNCHANGED <<fn, env, world, now, ai, ri, cloudwatch, nextToken, frames,
                   data, alarms, reports, calls, outbox, event, blox, desc,
                   tagList, history, lines, args>>

\* title(event) of builder.mjs is called and returns
callTitle ==
    /\ fn = "function"
    /\ pc = "call"
    /\ args.f = "title"
    /\ result' = titleNotifications(args.event)
    /\ pc' = "returned"
    /\ UNCHANGED <<fn, env, world, now, ai, ri, cloudwatch, nextToken, frames,
                   data, alarms, reports, calls, outbox, event, blox, desc,
                   tagList, history, lines, args>>

\* started(reasonData) is called and returns
callStarted ==
    /\ fn = "function"
    /\ pc = "call"
    /\ args.f = "started"
    /\ result' = started(args.reasonData, now)
    /\ pc' = "returned"
    /\ UNCHANGED <<fn, env, world, now, ai, ri, cloudwatch, nextToken, frames,
                   data, alarms, reports, calls, outbox, event, blox, desc,
                   tagList, history, lines, args>>

----------------------------------------------------------------------------
(* log-groups.mjs *)

\* const TAGGED
TAGGED ==
    {S_AWSApplicationELB, S_PRXDovetailRouter, S_PRXDovetailLegacy,
     S_PRXDovetailCounts, S_PRXDovetailAnalytics, S_PRXAugury, S_PRXFeeder,
     S_PRXClickhouse}

\* the first index from which s occurs in str, at or after from; 0 when none
IndexOfFrom(str, s, from) ==
    LET found == {i \in from..(Len(str) + 1) : MatchAt(str, i, s)}
    IN  IF found = {} THEN 0 ELSE Min(found)

\* str.split(s): the parts of str that the occurrences of s separate
RECURSIVE Split(_, _)
Split(str, s) ==
    LET i == IndexOfFrom(str, s, 1)
    IN  IF i = 0 THEN <<str>>
        ELSE <<SubSeq(str, 1, i - 1)>>
                \o Split(SubSeq(str, i + Len(s), Len(str)), s)

\* ${object.field} and ${array[index]} of a template literal: a missing
\* value is written "undefined"
Interpolate(object, field) ==
    IF field \in DOMAIN object THEN object[field] ELSE S_undefined

\* desc?.MetricAlarms?.[0]
FirstMetricAlarm(description) ==
    IF Has(description, "MetricAlarms") /\ Len(description.MetricAlarms) >= 1
    THEN description.MetricAlarms[1]
    ELSE Undefined

\* Dimensions.find((d) => d.Name === name), undefined when there is none
FindDimension(dimensions, name) ==
    LET found == {i \in 1..Len(dimensions) : dimensions[i].Name = name}
    IN  IF found = {} THEN Undefined ELSE dimensions[Min(found)]

\* tagList?.Tags?.find((t) => t.Key === key)
FindTag(tags, key) ==
    IF ~ Has(tags, "Tags") THEN Undefined
    ELSE LET found == {i \in 1..Len(tags.Tags) : tags.Tags[i].Key = key}
         IN  IF found = {} THEN Undefined ELSE tags.Tags[Min(found)]

\* logGroupName(_event, desc, tagList): undefined, or the name returned, as
\* the record [value |-> name]
logGroupName(description, tags) ==
    LET alarm == FirstMetricAlarm(description)
        Namespace(ns) == Has(alarm, "Namespace") /\ alarm.Namespace = ns
        dimensioned == Has(alarm, "Dimensions") /\ Len(alarm.Dimensions) # 0
    IN  IF Namespace(S_AWSLambda) /\ dimensioned
        THEN LET functionDimension == FindDimension(alarm.Dimensions, S_FunctionName)
             IN  IF functionDimension # Undefined
                 THEN [value |-> S_awsLambdaPrefix
                                    \o Interpolate(functionDimension, "Value")]
                 ELSE Undefined
        ELSE IF Namespace(S_AWSStates) /\ dimensioned
        THEN LET functionDimension == FindDimension(alarm.Dimensions, S_LambdaFunctionArn)
             IN  IF functionDimension # Undefined
                 THEN [value |-> S_awsLambdaPrefix
                                    \o Interpolate(Split(functionDimension.Value,
                                                         S_functionSeparator), 2)]
                 ELSE Undefined
        ELSE IF \E ns \in TAGGED : Namespace(ns)
        THEN LET logGroupNameTag == FindTag(tags, S_logGroupTag)
             IN  IF logGroupNameTag # Undefined
                 THEN [value |-> logGroupNameTag.Value]
                 ELSE Undefined
        ELSE Undefined

\* the dimensions of the described alarms: none, an empty list, a function
\* name alone and after another dimension, a function ARN without and with
\* an alias, and a LambdaFunctionArn dimension holding a bare function name
DimensionLists ==
    {<<>>,
     <<[Name |-> S_InstanceId, Value |-> S_instance]>>,
     <<[Name |-> S_FunctionName, Value |-> S_ingest]>>,
     <<[Name |-> S_InstanceId, Value |-> S_instance],
       [Name |-> S_FunctionName, Value |-> S_ingest]>>,
     <<[Name |-> S_LambdaFunctionArn, Value |-> S_ingestArn]>>,
     <<[Name |-> S_LambdaFunctionArn, Value |-> S_ingestLiveArn]>>,
     <<[Name |-> S_LambdaFunctionArn, Value |-> S_ingest]>>}

\* the DescribeAlarms outputs logGroupName is called with
Descriptions ==
    {Undefined, [MetricAlarms |-> <<>>], [CompositeAlarms |-> <<>>]}
        \cup {[MetricAlarms |-> <<[Namespace |-> ns]>>] :
                ns \in {S_AWSLambda, S_AWSStates, S_PRXFeeder, S_AWSEC2}}
        \cup {[MetricAlarms |-> <<[Namespace |-> ns, Dimensions |-> ds]>>] :
                ns \in {S_AWSLambda, S_AWSStates, S_AWSApplicationELB,
                        S_PRXFeeder, S_AWSEC2},
                ds \in DimensionLists}

\* the ListTagsForResource outputs logGroupName is called with
TagLists ==
    {Undefined,
     [Tags |-> <<>>],
     [Tags |-> <<[Key |-> S_teamTag, Value |-> S_teamOps]>>],
     [Tags |-> <<[Key |-> S_teamTag, Value |-> S_teamOps],
                 [Key |-> S_logGroupTag, Value |-> S_logGroup]>>]}

\* the calls of logGroupName
LogGroupCalls ==
    {[f |-> "logGroupName", desc |-> d, tagList |-> t] :
        d \in Descriptions, t \in TagLists}

\* logGroupName(_event, desc, tagList) is called and returns
callLogGroupName ==
    /\ fn = "function"
    /\ pc = "call"
    /\ args.f = "logGroupName"
    /\ result' = logGroupName(args.desc, args.tagList)
    /\ pc' = "returned"
    /\ UNCHANGED <<fn, env, world, now, ai, ri, cloudwatch, nextToken, frames,
                   data, alarms, reports, calls, outbox, event, blox, desc,
                   tagList, history, lines, args>>

\* cleanName(alarmName) of the lambda named
cleanName(lambda, alarmName) ==
    IF lambda = "notifications" THEN cleanNameNotifications(alarmName)
    ELSE IF lambda = "reminders" THEN cleanNameReminders(alarmName)
    ELSE cleanNameReport(alarmName)

\* the calls of cleanName
CleanNameCalls ==
    {[f |-> "cleanName", lambda |-> lambda, alarmName |-> name] :
        lambda \in {"notifications", "reminders", "report"}, name \in NamedAlarms}

\* cleanName(alarmName) of one of the lambdas is called and returns
callCleanName ==
    /\ fn = "function"
    /\ pc = "call"
    /\ args.f = "cleanName"
    /\ result' = cleanName(args.lambda, args.alarmName)
    /\ pc' = "returned"
    /\ UNCHANGED <<fn, env, world, now, ai, ri, cloudwatch, nextToken, frames,
                   data, alarms, reports, calls, outbox, event, blox, desc,
                   tagList, history, lines, args>>

\* one call of one function
NextFunctions ==
    \/ callStarted
    \/ callChannel
    \/ callTitle
    \/ callLogGroupName
    \/ callCleanName

\* the calls of the functions
FunctionCalls(clock) ==
    StartedCalls(clock) \cup NamedCalls \cup LogGroupCalls \cup CleanNameCalls

\* a function about to be called
InitFunctions ==
    \E call \in FunctionCalls(InvocationTime) :
        /\ fn = "function"
        /\ env = Env(<<>>, <<>>)
        /\ world = <<>>
        /\ now = InvocationTime
        /\ pc = "call"
        /\ ai = 1
        /\ ri = 1
        /\ cloudwatch = Undefined
        /\ nextToken = Undefined
        /\ frames = <<>>
        /\ data = Undefined
        /\ alarms = [CompositeAlarms |-> <<>>, MetricAlarms |-> <<>>]
        /\ reports = <<>>
        /\ calls = <<>>
        /\ outbox = <<>>
        /\ event = Undefined
        /\ blox = <<>>
        /\ desc = Undefined
        /\ tagList = Undefined
        /\ history = Undefined
        /\ lines = <<>>
        /\ args = call
        /\ result = Undefined

SpecFunctions == InitFunctions /\ [][NextFunctions]_vars

----------------------------------------------------------------------------
(* Retries: one request sent through the CloudWatch client of a lambda *)

\* (attempt) => 100 + attempt * 1000, the second argument of
\* ConfiguredRetryStrategy
computeNextBackoffDelay(attempt) == 100 + attempt * 1000

\* the first argument of ConfiguredRetryStrategy: the attempts a request is
\* given in all
MaxAttempts == 10

\* the retry strategy of a client built without a retryStrategy option, that
\* of the SDK: a capped exponential backoff and a bounded number of attempts
DefaultRetryStrategy ==
    [maxAttempts |-> 3,
     delay |-> [attempt \in 1..3 |->
                    IF 100 * 2 ^ attempt < 20000 THEN 100 * 2 ^ attempt ELSE 20000]]

\* the retryStrategy of the CloudWatchClient each cloudWatchClient() builds:
\* configured in the report and the notifications, left out in the reminders
retryStrategy(lambda) ==
    IF lambda \in {"report", "notifications"}
    THEN [maxAttempts |-> MaxAttempts,
          delay |-> [attempt \in 1..MaxAttempts |-> computeNextBackoffDelay(attempt)]]
    ELSE DefaultRetryStrategy

\* the requests each lambda sends through its CloudWatch client
BackendRequests(lambda) ==
    IF lambda = "reminders" THEN {"DescribeAlarms"}
    ELSE IF lambda = "report" THEN {"DescribeAlarms", "DescribeAlarmHistory"}
    ELSE {"DescribeAlarms", "ListTagsForResource", "DescribeAlarmHistory"}

\* the attempts of the request made so far
Attempts ==
    Cardinality({i \in 1..Len(calls) : calls[i].api # "backoff"})

\* cloudwatch.send(command), one attempt: the backend answers, fails for
\* good, or fails with a transient error (throttling, 5xx), after which the
\* request is retried unless its attempts are used up
sendAttempt ==
    /\ fn \in {"reminders", "report", "notifications"}
    /\ pc = "send"
    /\ calls' = Append(calls, [api |-> args.api, attempt |-> Attempts + 1])
    /\ \E outcome \in {"answered", "transient", "error"} :
          IF outcome = "answered"
          THEN /\ pc' = "returned"
               /\ result' = [answered |-> TRUE]
          ELSE IF outcome = "transient"
                    /\ Attempts + 1 < cloudwatch.retryStrategy.maxAttempts
          THEN /\ pc' = "backoff"
               /\ UNCHANGED result
          ELSE /\ Throw
               /\ result' = [error |-> outcome]
    /\ UNCHANGED <<fn, env, world, now, ai, ri, cloudwatch, nextToken, frames,
                   data, alarms, reports, outbox, event, blox, desc, tagList,
                   history, lines, args>>

\* the wait before the next attempt: the delay the strategy computes for the
\* number of the retry
sendBackoff ==
    /\ fn \in {"reminders", "report", "notifications"}
    /\ pc = "backoff"
    /\ calls' = Append(calls, [api |-> "backoff",
                               delay |-> cloudwatch.retryStrategy.delay[Attempts]])
    /\ pc' = "send"
    /\ UNCHANGED <<fn, env, world, now, ai, ri, cloudwatch, nextToken, frames,
                   data, alarms, reports, outbox, event, blox, desc, tagList,
                   history, lines, args, result>>

\* one step of a request
NextRetry ==
    \/ sendAttempt
    \/ sendBackoff

\* a lambda about to send a request through its client
InitRetry ==
    \E lambda \in {"reminders", "report", "notifications"} :
        \E api \in BackendRequests(lambda) :
            /\ fn = lambda
            /\ env = Env(<<>>, <<>>)
            /\ world = <<>>
            /\ now = InvocationTime
            /\ pc = "send"
            /\ ai = 1
            /\ ri = 1
            /\ cloudwatch = [region |-> S_useast1,
                             retryStrategy |-> retryStrategy(lambda),
                             credentials |-> [account |-> S_acct1, session |-> 1]]
            /\ nextToken = Undefined
            /\ frames = <<>>
            /\ data = Undefined
            /\ alarms = [CompositeAlarms |-> <<>>, MetricAlarms |-> <<>>]
            /\ reports = <<>>
            /\ calls = <<>>
            /\ outbox = <<>>
            /\ event = Undefined
            /\ blox = <<>>
            /\ desc = Undefined
            /\ tagList = Undefined
            /\ history = Undefined
            /\ lines = <<>>
            /\ args = [f |-> "send", api |-> api]
            /\ result = Undefined

SpecRetry == InitRetry /\ [][NextRetry]_vars

----------------------------------------------------------------------------
(* Properties of the scheduled handlers *)

\* the handler has returned or thrown
Ended == pc \in {"done", "failed"}

\* the pair's cloudWatchClient call was made
Visited(p) ==
    \E i \in 1..Len(calls) :
        /\ calls[i].api = "AssumeRole"
        /\ calls[i].account = p[1]
        /\ calls[i].region = p[2]

\* how many alarms the scan has merged: what the handlers test before they
\* dispatch
MergedCount ==
    IF fn = "reminders"
    THEN Len(alarms.CompositeAlarms) + Len(alarms.MetricAlarms)
    ELSE Len(reports)

\* the alarms a dispatched message renders or counts
DispatchedAlarms ==
    IF outbox = <<>> THEN {}
    ELSE IF fn = "reminders"
    THEN {alarms.CompositeAlarms[i] : i \in 1..Len(alarms.CompositeAlarms)}
            \cup {alarms.MetricAlarms[i] : i \in 1..Len(alarms.MetricAlarms)}
    ELSE {reports[i].Alarm : i \in 1..Len(reports)}

\* C1: a failure on one (account, region) pair, of AssumeRole or of the
\* listing, aborts only that pair: when the handler has ended, every
\* configured pair has been processed.
C1_FailureAbortsOnlyItsPair ==
    Ended => \A p \in Pairs(env) : Visited(p)

\* C2: a scan in which a pair failed and another pair yielded a retained alarm
\* still ends by dispatching one notification.
C2_PartialFailureStillDispatches ==
    (pc = "failed" /\ MergedCount > 0) => Len(outbox) = 1

\* C4: every alarm that a dispatched message renders or counts, composite or
\* metric, has a name that holds none of the excluded substrings.
C4_NoExcludedNameDispatched ==
    \A a \in DispatchedAlarms :
        \A sub \in ExcludedSubstrings : ~ Includes(a.AlarmName, sub)

\* C5: when every pair has been scanned and the merged result is empty, the
\* invocation ends without an outbound event; an outbound event is sent only
\* when the merged result is not empty, and then once.
C5_DispatchOnlyWhenNonEmpty ==
    /\ (pc = "done" /\ MergedCount = 0) => outbox = <<>>
    /\ (pc = "done" /\ MergedCount > 0) => Len(outbox) = 1
    /\ outbox # <<>> => (pc = "done" /\ MergedCount > 0)

\* C5 witness: a scan of all four pairs, some of which hold alarms that the
\* filters drop, has ended with nothing merged and nothing sent.
C5_Witness ==
    /\ pc = "done"
    /\ MergedCount = 0
    /\ outbox = <<>>
    /\ \A p \in Pairs(env) : Visited(p)
    /\ Cardinality(Pairs(env)) = 4
    /\ \E p \in Pairs(env) : /\ Has(world[p].pages[1], "MetricAlarms")
                             /\ world[p].pages[1].MetricAlarms # <<>>

\* the alarms of one kind the paged pair holds in all, whatever the pages: as
\* many as the pages hold together
ListedTotal(field) ==
    LET pages == world[<<S_acct1, S_useast1>>].pages
        RECURSIVE Sum(_)
        Sum(i) == IF i = 0 THEN 0
                  ELSE (IF Has(pages[i], field) THEN Len(pages[i][field]) ELSE 0)
                        + Sum(i - 1)
    IN  Sum(Len(pages))

\* the DescribeAlarms requests made so far
DescribeCalls ==
    LET RECURSIVE Pick(_)
        Pick(i) == IF i > Len(calls) THEN <<>>
                   ELSE (IF calls[i].api = "DescribeAlarms" THEN <<calls[i]>> ELSE <<>>)
                            \o Pick(i + 1)
    IN  Pick(1)

\* C3: for every content and every paging of it, the listing of one pair
\* follows the continuation token until none is returned (one request per
\* page, the k-th carrying the token of page k) and yields exactly the
\* composite and the metric alarms the backend holds for the request, each
\* once and in order; so the result does not depend on the page boundaries.
C3_ListingExhaustive ==
    pc = "merge" =>
        /\ data.CompositeAlarms =
              InState([i \in 1..ListedTotal("CompositeAlarms") |->
                          ListedAlarm(<<"c">>, i, now)], describeParams)
        /\ data.MetricAlarms =
              InState([i \in 1..ListedTotal("MetricAlarms") |->
                          ListedAlarm(<<"m">>, i, now)], describeParams)
        /\ Len(DescribeCalls) = Len(world[<<S_acct1, S_useast1>>].pages)
        /\ \A k \in 1..Len(DescribeCalls) :
              IF k = 1 THEN ~ Has(DescribeCalls[k].params, "NextToken")
              ELSE /\ Has(DescribeCalls[k].params, "NextToken")
                   /\ DescribeCalls[k].params.NextToken = [token |-> k]

\* C3 witness: a listing over three pages, with metric alarms on more than
\* one page, has returned three metric alarms and a composite alarm.
C3_Witness ==
    /\ pc = "merge"
    /\ fn = "report"
    /\ Len(world[<<S_acct1, S_useast1>>].pages) = 3
    /\ \A i \in {1, 3} : /\ Has(world[<<S_acct1, S_useast1>>].pages[i], "MetricAlarms")
                         /\ world[<<S_acct1, S_useast1>>].pages[i].MetricAlarms # <<>>
    /\ Len(data.MetricAlarms) = 3
    /\ Len(data.CompositeAlarms) = 1

\* C7: in every message handed to the dispatcher, every block's text is at
\* most 3000 characters long.
C7_EveryBlockWithinLimit ==
    \A i \in 1..Len(outbox) :
        \A k \in 1..Len(outbox[i].Detail.attachments[1].blocks) :
            Len(outbox[i].Detail.attachments[1].blocks[k].text.text) <= SlackTextLimit

\* the greatest element of a non-empty set of integers
Max(S) == CHOOSE x \in S : \A y \in S : x >= y

\* the instant the state of an alarm began, as C8 has it: the explicit start
\* date, else the most recent of the evaluated datapoints
MostRecentStart(reasonData) ==
    IF Has(reasonData, "startDate") THEN DateParse(reasonData.startDate)
    ELSE Max({DateParse(reasonData.evaluatedDatapoints[i].timestamp) :
                i \in 1..Len(reasonData.evaluatedDatapoints)})

\* C8: the estimated duration of an alarm is now minus the payload's explicit
\* start date when it has one, else now minus the most recent timestamp of
\* the evaluated datapoints, in whatever order they are listed.
C8_DurationFromMostRecentDatapoint ==
    \A i \in 1..Len(alarms.MetricAlarms) :
        LET a == alarms.MetricAlarms[i]
        IN  (Has(a, "StateReasonData") /\ HasStart(JSONParse(a.StateReasonData)))
                => /\ Has(a, "EstimatedDuration")
                   /\ a.EstimatedDuration
                        = now - MostRecentStart(JSONParse(a.StateReasonData))

\* the reminders have merged the one pair of the run
PairMerged == fn = "reminders" /\ pc \in {"finish", "done"}

\* C9: a metric alarm with no estimable duration is always retained, and one
\* with an estimable duration d, d = 0 and negative d included, is retained
\* if and only if d > 3600 seconds.
C9_RetainedIffOverAnHour ==
    PairMerged =>
        \A i \in 1..Len(data.MetricAlarms) :
            LET a == injectDuration(data.MetricAlarms[i], now)
            IN  filterByName(a) =>
                    ((\E j \in 1..Len(alarms.MetricAlarms) : alarms.MetricAlarms[j] = a)
                        <=> (\/ ~ Has(a, "EstimatedDuration")
                             \/ a.EstimatedDuration > DurationThreshold * MsPerSecond))

\* C10: within the alarms of one pair, those with an estimable duration are
\* in duration-descending order and every alarm without one comes before
\* every alarm with one, for every input order.  (Stated for the pairs whose
\* retained alarms all have a duration over the threshold or none at all.)
C10_SortedByDuration ==
    (/\ PairMerged
     /\ \A i \in 1..Len(alarms.MetricAlarms) :
            Has(alarms.MetricAlarms[i], "EstimatedDuration")
                => alarms.MetricAlarms[i].EstimatedDuration
                        > DurationThreshold * MsPerSecond)
    => \A i, j \in 1..Len(alarms.MetricAlarms) :
          i < j =>
            LET a == alarms.MetricAlarms[i]
                b == alarms.MetricAlarms[j]
            IN  /\ (Has(a, "EstimatedDuration") /\ Has(b, "EstimatedDuration"))
                        => a.EstimatedDuration >= b.EstimatedDuration
                /\ ~ (Has(a, "EstimatedDuration") /\ ~ Has(b, "EstimatedDuration"))

\* the details text before any reduction: the detail lines joined
JoinedDetails == Join(lines, <<"\n">>)

\* blocks() has returned
BlocksReturned == fn = "notifications" /\ pc = "done"

\* C6: the text of the details block blocks() returns is at most 3000
\* characters; a joined details text of at most 3000 characters is emitted
\* unmodified, and one of 3001 characters with no annotations marker is
\* emitted as exactly its first 3000 characters.
C6_DetailsWithinLimit ==
    BlocksReturned =>
        /\ Len(blox[2].text.text) <= 3000
        /\ Len(JoinedDetails) <= 3000 => blox[2].text.text = JoinedDetails
        /\ (Len(JoinedDetails) = 3001 /\ ~ Includes(JoinedDetails, S_annotations))
                => blox[2].text.text = SubSeq(JoinedDetails, 1, 3000)

\* C6 witness: blocks() has returned a details block of 3000 characters for
\* detail lines that join to 3001 characters without the marker.
C6_Witness ==
    /\ BlocksReturned
    /\ Len(JoinedDetails) = 3001
    /\ ~ Includes(JoinedDetails, S_annotations)
    /\ Len(lines) = 2
    /\ Len(blox[2].text.text) = 3000

\* started() has returned
StartedReturned == fn = "function" /\ pc = "returned" /\ args.f = "started"

\* the time elapsed since the start the payload of the call gives
Elapsed ==
    now - DateParse(IF Has(args.reasonData, "startDate")
                    THEN args.reasonData.startDate
                    ELSE args.reasonData.evaluatedDatapoints[1].timestamp)

\* an integer as JavaScript writes it
IntegerToString(n) ==
    IF n < 0 THEN <<"-">> \o NumberToString(0 - n) ELSE NumberToString(n)

\* C11: the rendered duration uses the largest unit whose threshold the
\* elapsed seconds reach (days from 86400, hours from 3600, minutes from 60,
\* else seconds), and the number shown is the elapsed time in that unit
\* rounded to the nearest integer, in all four units.
C11_LargestUnitRounded ==
    StartedReturned =>
        LET unit == IF Elapsed >= 86400 * 1000 THEN <<86400, S_days>>
                    ELSE IF Elapsed >= 3600 * 1000 THEN <<3600, S_hours>>
                    ELSE IF Elapsed >= 60 * 1000 THEN <<60, S_minutes>>
                    ELSE <<1, S_seconds>>
        IN  result = S_Started \o IntegerToString(RoundDiv(Elapsed, unit[1] * 1000))
                        \o <<" ">> \o unit[2] \o S_ago

S_oneHour ==
    <<"*", "S", "t", "a", "r", "t", "e", "d", ":", "*", " ", "1", " ", "h", "o", "u", "r", "s", " ", "a", "g", "o">>

S_minutes1440 ==
    <<"*", "S", "t", "a", "r", "t", "e", "d", ":", "*", " ", "1", "4", "4", "0", " ", "m", "i", "n", "u", "t", "e", "s", " ", "a", "g", "o">>

S_hours24 ==
    <<"*", "S", "t", "a", "r", "t", "e", "d", ":", "*", " ", "2", "4", " ", "h", "o", "u", "r", "s", " ", "a", "g", "o">>

\* C12 as stated: a duration of exactly 3600 seconds renders as `1 hours`,
\* and a duration of 86399 seconds renders in minutes, not days.
C12_AsStated ==
    StartedReturned =>
        /\ Elapsed = 3600 * 1000 => result = S_oneHour
        /\ Elapsed = 86399 * 1000 => result = S_minutes1440

\* C12: a duration of exactly 3600 seconds renders as `1 hours`, and a
\* duration of 86399 seconds renders in hours, as `24 hours`, not in days.
C12_BoundaryUnits ==
    StartedReturned =>
        /\ Elapsed = 3600 * 1000 => result = S_oneHour
        /\ Elapsed = 86399 * 1000 => result = S_hours24

\* C12 witness: started() has rendered a duration of 86399 seconds, from a
\* start date, as `24 hours`.
C12_Witness ==
    /\ StartedReturned
    /\ Has(args.reasonData, "startDate")
    /\ Elapsed = 86399 * 1000
    /\ result = S_hours24

\* channel() has returned
ChannelReturned == fn = "function" /\ pc = "returned" /\ args.f = "channel"

\* title() has returned
TitleReturned == fn = "function" /\ pc = "returned" /\ args.f = "title"

\* the first whitespace-delimited token of a name: its characters before the
\* first white space
FirstToken(name) ==
    LET spaces == {i \in 1..Len(name) : name[i] \in {" ", "\n"}}
    IN  IF spaces = {} THEN name
        ELSE SubSeq(name, 1, (CHOOSE i \in spaces : \A j \in spaces : i <= j) - 1)

\* the fixed destination of each severity word
SeverityDestination(token) ==
    CASE token = S_FATAL -> "G2QH13X62"
      [] token = S_ERROR -> "G2QH6NMEH"
      [] token = S_WARN -> "G2QHC2N7K"
      [] token = S_INFO -> "G2QHBL6UX"
      [] token = S_CRITICAL -> "G2QH13X62"
      [] token = S_MAJOR -> "G2QH6NMEH"
      [] token = S_MINOR -> "G2QHC2N7K"
      [] OTHER -> "#sandbox2"

\* C13: the destination is decided by the first whitespace-delimited token
\* of the alarm name: a severity word (case-sensitive) gives that severity's
\* destination; every other name, one whose first token only begins with a
\* severity word (WARNING) included, gives the default sandbox destination.
C13_DestinationByFirstToken ==
    ChannelReturned =>
        result = SeverityDestination(FirstToken(args.event.detail.alarmName))

S_cleanWarnLatency ==
    <<"h", "i", "g", "h", " ", "l", "a", "t", "e", "n", "c", "y">>
S_cleanFatal ==
    <<"S", "o", "m", "e", "t", "h", "i", "n", "g">>
S_cleanErrorDbEscaped ==
    <<"d", "b", " ", "&", "l", "t", ";", "p", "r", "o", "d", "&", "g", "t", ";", " ", "c", "p", "u">>
S_cleanErrorDbStripped ==
    <<"d", "b", " ", "p", "r", "o", "d", " ", "c", "p", "u">>
S_cleanInfoQueue ==
    <<"q", "u", "e", "u", "e", " ", "d", "e", "p", "t", "h">>
S_cleanMajor ==
    <<"a", "p", "i", " ", "d", "o", "w", "n">>
S_cleanCriticalEscaped ==
    <<"a", " ", "&", "g", "t", ";", " ", "b">>
S_cleanCriticalStripped ==
    <<"a", " ", " ", "b">>
S_cleanMinorDisk ==
    <<"d", "i", "s", "k">>
S_cleanWarningCut ==
    <<"I", "N", "G", " ", "d", "i", "s", "k", " ", "f", "u", "l", "l">>
S_titleWarnLatencyOhio ==
    <<"A", "L", "A", "R", "M", " ", "|", " ", "O", "h", "i", "o", " ", "raquo", " ", "h", "i", "g", "h", " ", "l", "a", "t", "e", "n", "c", "y">>

\* the cleaned name C14 as stated gives each alarm: angle brackets taken out
CleanedAsStated(name) ==
    CASE name = N_WarnLatency -> S_cleanWarnLatency
      [] name = N_FatalSomething -> S_cleanFatal
      [] name = N_ErrorDb -> S_cleanErrorDbStripped
      [] name = N_InfoQueue -> S_cleanInfoQueue
      [] name = N_CompositeApi -> S_cleanMajor
      [] name = N_CriticalAB -> S_cleanCriticalStripped
      [] name = N_MinorDisk -> S_cleanMinorDisk
      [] OTHER -> name

\* the cleaned name of each alarm with the angle brackets written as HTML
\* entities, and a severity word taken from the front of a longer word too
CleanedEscaped(name) ==
    CASE name = N_WarnLatency -> S_cleanWarnLatency
      [] name = N_FatalSomething -> S_cleanFatal
      [] name = N_ErrorDb -> S_cleanErrorDbEscaped
      [] name = N_InfoQueue -> S_cleanInfoQueue
      [] name = N_CompositeApi -> S_cleanMajor
      [] name = N_CriticalAB -> S_cleanCriticalEscaped
      [] name = N_MinorDisk -> S_cleanMinorDisk
      [] name = N_WarningDisk -> S_cleanWarningCut
      [] OTHER -> name

\* the label of the two regions of the calls
RegionLabel(code) == IF code = S_useast1 THEN S_Virginia ELSE S_Ohio

BackoffDelays ==
    LET RECURSIVE Pick(_)
        Pick(i) == IF i > Len(calls) THEN <<>>
                   ELSE (IF calls[i].api = "backoff" THEN <<calls[i].delay>> ELSE <<>>)
                            \o Pick(i + 1)
    IN  Pick(1)

\* C16: an alarm-backend request that fails transiently is retried with a
\* backoff delay that grows exponentially with the attempt number up to a
\* cap (every delay at least twice the one before, or equal to it at the
\* cap), for at most a fixed number of attempts, on the notification, the
\* reminder and the report path.
C16_CappedExponentialBackoff ==
    args.f = "send" =>
        /\ \A i \in 1..(Len(BackoffDelays) - 1) :
              \/ BackoffDelays[i + 1] >= 2 * BackoffDelays[i]
              \/ BackoffDelays[i + 1] = BackoffDelays[i]
        /\ Attempts <= 10

\* detailLines() has been called in the invocation of blocks()
DetailLinesCalled == fn = "notifications" /\ Len(blox) >= 1

\* the event's configuration lists exactly one metric
SingleMetric(ev) ==
    /\ Has(ev.detail.configuration, "metrics")
    /\ Len(ev.detail.configuration.metrics) = 1

\* C17: detailLines never raises an error; for state INSUFFICIENT_DATA it
\* returns exactly the one placeholder line; for state ALARM or OK and an
\* event whose metric list does not have exactly one entry (several, none,
\* or no list at all as for a composite alarm) it returns exactly the one
\* unsupported-type line; only events with exactly one metric get the lines
\* of the single-metric builder.
C17_PlaceholderWithoutError ==
    DetailLinesCalled =>
        /\ pc # "failed"
        /\ pc \in {"text", "done"} =>
              /\ event.detail.state.value = S_INSUFFICIENT_DATA
                    => lines = <<S_insufficient>>
              /\ (event.detail.state.value \in {S_ALARM, S_OK}
                        /\ ~ SingleMetric(event))
                    => lines = <<S_unknownMetric>>
              /\ lines \in SingleMetricLines
                    => (event.detail.state.value \in {S_ALARM, S_OK}
                            /\ SingleMetric(event))

\* logGroupName has returned
LogGroupReturned ==
    fn = "function" /\ pc = "returned" /\ args.f = "logGroupName"

\* what follows the first ":function:" of an ARN
AfterFunction(arn) ==
    SubSeq(arn, IndexOfFrom(arn, S_functionSeparator, 1) + Len(S_functionSeparator),
           Len(arn))

\* C18: logGroupName gives /aws/lambda/<FunctionName value> for the
\* namespace AWS/Lambda with a FunctionName dimension, /aws/lambda/<function
\* name after :function: in the ARN> for the namespace AWS/States with a
\* LambdaFunctionArn dimension, the value of the log-group-name tag for a
\* namespace of the allow-list with that tag, and no log group in every
\* other case; it never gives a name built from a missing value.
C18_LogGroupResolved ==
    LogGroupReturned =>
        LET alarm == FirstMetricAlarm(args.desc)
            in(ns) == Has(alarm, "Namespace") /\ alarm.Namespace = ns
            dims == IF Has(alarm, "Dimensions") THEN alarm.Dimensions ELSE <<>>
            functionName == FindDimension(dims, S_FunctionName)
            functionArn == FindDimension(dims, S_LambdaFunctionArn)
            tag == FindTag(args.tagList, S_logGroupTag)
        IN  /\ IF in(S_AWSLambda) /\ functionName # Undefined
               THEN result = [value |-> S_awsLambdaPrefix \o functionName.Value]
               ELSE IF in(S_AWSStates) /\ functionArn # Undefined
               THEN /\ Includes(functionArn.Value, S_functionSeparator)
                    /\ result = [value |-> S_awsLambdaPrefix
                                             \o AfterFunction(functionArn.Value)]
               ELSE IF (\E ns \in TAGGED : in(ns)) /\ tag # Undefined
               THEN result = [value |-> tag.Value]
               ELSE result = Undefined
            /\ result # [value |-> S_awsLambdaPrefix \o S_undefined]

\* the event carries a non-empty description of the alarm
Described(ev) ==
    /\ Has(ev.detail.configuration, "description")
    /\ ev.detail.configuration.description # <<>>

\* C19: the list blocks() returns starts with the linked title block, then
\* the block of the details text; it has a third block exactly when the new
\* state is ALARM and the event carries a non-empty description, and that
\* block's text is the description verbatim; for OK and INSUFFICIENT_DATA
\* the list has exactly two blocks.
C19_TitleDetailsDescription ==
    BlocksReturned =>
        /\ Len(blox) \in {2, 3}
        /\ blox[1] = SectionBlock(<<"*", "<">> \o alarmConsoleUrl(event) \o <<"|">>
                                    \o titleNotifications(event) \o <<">", "*">>)
        /\ blox[2] = SectionBlock(DetailsText(lines))
        /\ Len(blox) = 3 <=> (event.detail.state.value = S_ALARM /\ Described(event))
        /\ Len(blox) = 3 =>
              blox[3] = SectionBlock(event.detail.configuration.description)
        /\ event.detail.state.value \in {S_OK, S_INSUFFICIENT_DATA} => Len(blox) = 2

\* blocks() has returned three blocks for an ALARM event with a description
C19_Witness ==
    /\ BlocksReturned
    /\ event.detail.state.value = S_ALARM
    /\ Described(event)
    /\ Len(blox) = 3
    /\ blox[3].text.text = S_description

\* the configured pairs in the order of the handlers' two loops: accounts in
\* the order of SEARCH_ACCOUNTS and, within an account, regions in the order
\* of SEARCH_REGIONS
PairSequence(e) ==
    [k \in 1..(Len(e.SEARCH_ACCOUNTS) * Len(e.SEARCH_REGIONS)) |->
        <<e.SEARCH_ACCOUNTS[((k - 1) \div Len(e.SEARCH_REGIONS)) + 1],
          e.SEARCH_REGIONS[((k - 1) % Len(e.SEARCH_REGIONS)) + 1]>>]

\* the positions in calls of the AssumeRole requests, in order
AssumeRoleCalls ==
    LET RECURSIVE Pick(_)
        Pick(i) == IF i > Len(calls) THEN <<>>
                   ELSE (IF calls[i].api = "AssumeRole" THEN <<i>> ELSE <<>>)
                            \o Pick(i + 1)
    IN  Pick(1)

\* every alarm-backend call made so far follows the AssumeRole request of
\* its own pair and carries the session of the latest AssumeRole request
OwnFreshCredentials ==
    \A i \in 1..Len(calls) :
        calls[i].api \in {"DescribeAlarms", "DescribeAlarmHistory"} =>
            /\ calls[i].session < i
            /\ calls[calls[i].session].api = "AssumeRole"
            /\ calls[calls[i].session].account = calls[i].account
            /\ calls[calls[i].session].region = calls[i].region
            /\ \A j \in (calls[i].session + 1)..i : calls[j].api # "AssumeRole"

\* C20: a scan visits every configured (account, region) pair exactly once,
\* accounts in configured order and regions in configured order within an
\* account: when the handler has ended, the AssumeRole requests are one per
\* pair in that order; each alarm-backend call comes after the AssumeRole
\* request of its pair and uses the credentials of that request and of no
\* other pair.
C20_EveryPairOnceInOrder ==
    (fn \in ScanLambdas /\ Ended) =>
        /\ Len(AssumeRoleCalls) = Len(PairSequence(env))
        /\ \A k \in 1..Len(AssumeRoleCalls) :
              /\ k <= Len(PairSequence(env))
              /\ calls[AssumeRoleCalls[k]].account = PairSequence(env)[k][1]
              /\ calls[AssumeRoleCalls[k]].region = PairSequence(env)[k][2]
        /\ OwnFreshCredentials

\* the state-update history the backend holds for the pair of an alarm
PairHistory(alarm) ==
    world[<<ArnField(alarm.AlarmArn, 4), ArnField(alarm.AlarmArn, 3)>>].history

\* how many items of a history are of the alarm named, lie in the window and
\* record a transition to ALARM
OwnTransitionsToAlarm(updates, name, start, end) ==
    Cardinality({i \in 1..Len(updates) :
                    /\ updates[i].AlarmName = name
                    /\ updates[i].Timestamp >= start
                    /\ updates[i].Timestamp <= end
                    /\ Includes(updates[i].HistorySummary, S_toAlarmNeedle)})

\* C21: in the report, the count shown for an alarm is the number of the
\* state-update history items of that same alarm, within the window the
\* report asks for, whose summary records a transition to ALARM: the items
\* of other alarms of the same account and region do not contribute.
C21_CountOfOwnTransitions ==
    fn = "report" =>
        \A i \in 1..Len(reports) :
            reports[i].Count =
                OwnTransitionsToAlarm(PairHistory(reports[i].Alarm),
                                      reports[i].Alarm.AlarmName,
                                      hoursAgo26(now), now)

\* the requests for the state-update history made so far
HistoryCalls ==
    {calls[i] : i \in {j \in 1..Len(calls) : calls[j].api = "DescribeAlarmHistory"}}

\* C22: the history window starts a fixed span before the invocation time:
\* exactly 24 hours before now on the notification path and exactly 26
\* hours before now on the report path, where it is also the cut-off, by
\* the timestamp of the last state transition, for the alarms reported.
C22_WindowIsFixedSpan ==
    /\ fn = "notifications" =>
          \A call \in HistoryCalls : call.params.StartDate = now - 24 * MsPerHour
    /\ fn = "report" =>
          /\ \A call \in HistoryCalls : call.params.StartDate = now - 26 * MsPerHour
          /\ \A i \in 1..Len(reports) :
                DateParseDate(reports[i].Alarm.StateTransitionedTimestamp)
                    >= now - 26 * MsPerHour

\* the blocks of the message a reminder run has dispatched
ReminderBlocks == outbox[1].Detail.attachments[1].blocks

\* how many of the blocks are per-alarm section blocks
SectionCount ==
    Cardinality({i \in 1..Len(ReminderBlocks) : ReminderBlocks[i].type = "section"})

\* C23: in a reminder run the per-alarm section blocks of the dispatched
\* message are as many as the retained metric alarms, while the count of the
\* fallback text and the decision to dispatch use the composite plus the
\* retained metric alarms: a run that finds composite alarms only dispatches
\* a message of the header block alone.
C23_BlocksPerMetricAlarm ==
    (fn = "reminders" /\ pc = "done") =>
        LET composite == Len(alarms.CompositeAlarms)
            metric == Len(alarms.MetricAlarms)
        IN  /\ outbox # <<>> <=> composite + metric > 0
            /\ outbox # <<>> =>
                  /\ Len(outbox) = 1
                  /\ SectionCount = metric
                  /\ Len(ReminderBlocks) = 1 + metric
                  /\ ReminderBlocks[1] = HeaderBlock(S_reminderHeader)
                  /\ outbox[1].Detail.attachments[1].fallback =
                        S_fallbackHead \o NumberToString(composite + metric)
                            \o S_fallbackTail
                  /\ (metric = 0) => ReminderBlocks = <<HeaderBlock(S_reminderHeader)>>

\* a reminder run that found composite alarms only has dispatched a message
\* holding the header block and no alarm block
C23_Witness ==
    /\ fn = "reminders"
    /\ pc = "done"
    /\ Len(alarms.CompositeAlarms) > 0
    /\ Len(alarms.MetricAlarms) = 0
    /\ Len(outbox) = 1
    /\ Len(ReminderBlocks) = 1

\* the metric alarms in state ALARM the backend holds for a pair, in the
\* order of its pages
ListedMetricAlarms(p) ==
    InState(Flatten([k \in 1..Len(world[p].pages) |->
                        IF Has(world[p].pages[k], "MetricAlarms")
                        THEN world[p].pages[k].MetricAlarms ELSE <<>>]),
            [StateValue |-> S_ALARM])

\* the place of an alarm's pair in the configured order
PairIndex(alarm) ==
    CHOOSE k \in 1..Len(PairSequence(env)) :
        PairSequence(env)[k] = <<ArnField(alarm.AlarmArn, 4), ArnField(alarm.AlarmArn, 3)>>

\* C24: after a reminder scan over several pairs the merged metric alarms
\* are the concatenation, in the configured order of the pairs, of each
\* pair's own filtered and sorted list: the sort is within a pair, and every
\* alarm of an earlier pair precedes every alarm of a later pair whatever
\* their durations.
C24_MergedIsConcatenation ==
    (fn = "reminders" /\ pc \in {"finish", "done"}) =>
        /\ alarms.MetricAlarms =
              Flatten([k \in 1..Len(PairSequence(env)) |->
                          RetainedMetricAlarms(ListedMetricAlarms(PairSequence(env)[k]),
                                               now)])
        /\ \A i, j \in 1..Len(alarms.MetricAlarms) :
              i < j => PairIndex(alarms.MetricAlarms[i])
                            <= PairIndex(alarms.MetricAlarms[j])

\* a scan has merged an alarm of an earlier pair before a longer-running
\* alarm of a later pair
C24_Witness ==
    /\ fn = "reminders"
    /\ pc = "done"
    /\ \E i, j \in 1..Len(alarms.MetricAlarms) :
          /\ i < j
          /\ PairIndex(alarms.MetricAlarms[i]) < PairIndex(alarms.MetricAlarms[j])
          /\ Has(alarms.MetricAlarms[i], "EstimatedDuration")
          /\ Has(alarms.MetricAlarms[j], "EstimatedDuration")
          /\ alarms.MetricAlarms[i].EstimatedDuration
                < alarms.MetricAlarms[j].EstimatedDuration

\* cleanName has returned
CleanNameReturned ==
    fn = "function" /\ pc = "returned" /\ args.f = "cleanName"

\* C25: the cleaning of names used for titles gives the same cleaned name on
\* the notification, the reminder and the report path for every alarm name,
\* the names whose trailing parenthetical suffix holds a space included.
C25_SameCleanedNameOnEveryPath ==
    CleanNameReturned =>
        \A lambda \in {"notifications", "reminders", "report"} :
            result = cleanName(lambda, args.alarmName)

====
